---- MODULE Spec2Model ----
(***************************************************************************)
(* A model of the WebSocket load balancer (loadbalancer.go), the backend   *)
(* session plane (server.go) and the shared client registry                *)
(* (global_clients.go).                                                    *)
(*                                                                         *)
(* The proxy part follows handleWebSocket statement by statement: every    *)
(* access to shared memory that the code makes without a common lock is a  *)
(* step of its own, so that the interleavings the Go scheduler can produce *)
(* are the interleavings of the model.                                     *)
(***************************************************************************)
EXTENDS Integers, Sequences, FiniteSets, TLC

(***************************************************************************)
(* Bounds of the model.                                                    *)
(***************************************************************************)
\* concurrent upgrade requests the proxy handles (one handler task each)
MaxSessions == 2
\* how often a backend process changes its condition (dies, recovers, ...)
MaxNodeChanges == 1
\* selections in a row that are followed, and the largest round-robin index
MaxSelections == 3
\* legs the backends accept (one handler task each)
MaxLegs == 2
\* backend processes that are killed
MaxStops == 1
\* backends a send-command request passes through
MaxHops == 3
\* frames the forwarders of a session read, both directions together
MaxFrames == 2

Sessions == 1..MaxSessions

(***************************************************************************)
(* Program constants.                                                      *)
(***************************************************************************)
\* the backends runLoadBalancer installs
Backends == {"node1", "node2", "node3"}
\* client ids carried by registration messages
ClientIds == {"c1", "c2"}

RoundRobin == "round_robin"
LeastConn == "least_conn"
IPHash == "ip_hash"
Strategies == {RoundRobin, LeastConn, IPHash}

NoBackend == "nil"

\* global_clients.go lines 150 and 173: seconds of silence after which a
\* read reports a record offline
OfflineAfter == 30

\* server.go line 475: http.StatusOK
StatusOK == 200

\* loadbalancer.go line 481: seconds between two probe rounds
TickerPeriod == 10

\* global_clients.go line 219: minutes of silence after which the sweep
\* deletes a record
SweepAfterMinutes == 5

\* bound: consecutive failed connection attempts of the client followed
MaxRetries == 17

\* bound: successful connections of the client followed
MaxConnects == 2

\* client.go lines 189-190: the delays of the reconnect loop, in seconds
baseDelay == 2

maxDelay == 30

\* client.go lines 163-173, 188: the loop as StartWithAutoReconnect starts
\* it (retryCount := 0, ctx not cancelled, no delay computed yet)
NewClient ==
    [pc |-> "loop", retryCount |-> 0, delay |-> 0, ctxDone |-> FALSE,
     connects |-> 0]

\* the sockets whose writers are followed: a client's connection on a
\* backend, and the client leg of a splice on the proxy
Sockets == {"backendConn", "clientConn"}

\* server.go lines 80-85: the upgrade has succeeded, nothing is read yet
NewConn ==
    [pc |-> "reg_read", id |-> <<>>, name |-> <<>>, registered |-> FALSE,
     msg |-> <<>>, received |-> <<>>, responses |-> <<>>]

\* no sweep of the registry has just run
NoSweep == [done |-> FALSE, cleaned |-> {}]

\* a map without the key, and the holders of a mutex
NoSession == <<>>
Free == <<"free">>
Prober == <<"prober">>
Holder(s) == <<"session", s>>

(***************************************************************************)
(* State of the proxy.                                                     *)
(***************************************************************************)
VARIABLES
    strategy,       \* lb.strategy
    backends,       \* lb.backends: id -> [Connections, IsHealthy, LastCheck]
    roundRobinIdx,  \* lb.roundRobinIdx
    clients,        \* lb.clients: client id -> the session whose record it holds
    clientsMu,      \* lb.clientsMu: its holder
    backendsMu,     \* lb.backendsMu: [writer, readers]
    sess,           \* one handleWebSocket task per session: pc and locals
    probing,        \* checkBackendsHealth: the backends still to probe this round
    node,           \* environment: condition of each backend process
    nodeChanges,    \* environment: changes of condition so far
    now,            \* environment: the clock
    selLog          \* the selections made since the last change of health

(***************************************************************************)
(* State of the backend processes (server.go, global_clients.go).          *)
(***************************************************************************)
VARIABLES
    procUp,         \* environment: the backend processes that are running
    file,           \* global_clients.json, shared by the backend processes
    greg,           \* globalRegistry.clients of each backend process
    localClients,   \* Server.clients of each backend: client id -> its leg
    legs,           \* one Server.handleWebSocket task per accepted leg
    cmd,            \* an admin request POST /api/send-command in progress
    stops           \* environment: the backend processes killed so far

lbVars == <<strategy, backends, roundRobinIdx, clients, clientsMu, backendsMu,
            sess, probing, node, nodeChanges, now>>

nodeVars == <<procUp, file, greg, localClients, legs, cmd, stops>>

(***************************************************************************)
(* State of the forwarders of one session (forwardMessages).               *)
(***************************************************************************)
VARIABLES
    fwdPc,          \* position of the two forwarder tasks and of the caller
    fwdMsg,         \* the decoded message each forwarder holds
    fwdRead,        \* per direction, the frames read so far
    fwdWritten,     \* per direction, the frames written so far
    fwdDone,        \* the channel done is closed
    fwdConn         \* the client leg and the backend leg

fwdVars == <<fwdPc, fwdMsg, fwdRead, fwdWritten, fwdDone, fwdConn>>

(***************************************************************************)
(* The sweep of the registry (CleanupOfflineClients).                      *)
(***************************************************************************)
VARIABLES
    sweep           \* whether the registry has just been swept, and the ids
                    \* the sweep deleted (the count `cleaned` of the code)

(***************************************************************************)
(* The client program's reconnect loop (client.go, reconnectLoop).         *)
(***************************************************************************)
VARIABLES
    client          \* where the loop stands, retryCount, the delay it last
                    \* computed, whether ctx is cancelled, and how many times
                    \* it has connected

(***************************************************************************)
(* One WebSocket connection of a backend (server.go, handleWebSocket), and *)
(* the tasks that are inside a write on a socket.                          *)
(***************************************************************************)
VARIABLES
    conn,           \* the handler of the connection: where it stands, the
                    \* id and name it registered, the envelopes it has
                    \* received and the ids of the responses it has written
    writers         \* per socket, the tasks inside WriteJSON on it

connVars == <<conn, writers>>

InitConn ==
    /\ conn = NewConn
    /\ writers = [s \in Sockets |-> {}]

vars == <<lbVars, selLog, nodeVars, fwdVars, sweep, client, connVars>>

(***************************************************************************)
(* selectBackend (loadbalancer.go:201-237).                                *)
(***************************************************************************)
\* `for _, backend := range lb.backends`: Go leaves the iteration order of
\* a map unspecified and the runtime varies it from one loop to the next,
\* so a loop over a map with key set S visits S in any order.
MapOrders(S) ==
    {f \in [1..Cardinality(S) -> S] :
        \A i, j \in 1..Cardinality(S) : i # j => f[i] # f[j]}

\* mutant: the health filter is left out
healthyBackends_NoFilter(bs, order) == order

\* "filter the healthy servers": the healthy backends, in iteration order
healthyBackends(bs, order) == SelectSeq(order, LAMBDA b : bs[b].IsHealthy)

\* a loop that keeps the first backend of the list whatever its count
LeastConnLoop_First(bs, hb, i, minConn, selected) == hb[1]

\* case LeastConn: the loop keeps the first backend whose count is strictly
\* below the minimum so far (minConn starts at the largest int, which no
\* count reaches: `selected = NoBackend` stands for it)
RECURSIVE LeastConnLoop(_, _, _, _, _)
LeastConnLoop(bs, hb, i, minConn, selected) ==
    IF i > Len(hb) THEN selected
    ELSE IF selected = NoBackend \/ bs[hb[i]].Connections < minConn
         THEN LeastConnLoop(bs, hb, i + 1, bs[hb[i]].Connections, hb[i])
         ELSE LeastConnLoop(bs, hb, i + 1, minConn, selected)

\* the switch on lb.strategy over a non-empty list of healthy backends
PickBackend(strat, bs, hb, idx) ==
    CASE strat = RoundRobin -> hb[(idx % Len(hb)) + 1]
      [] strat = LeastConn -> LeastConnLoop(bs, hb, 1, 0, NoBackend)
      [] OTHER -> hb[1]

\* what one call of selectBackend can return: the backend chosen for some
\* iteration order of the map, NoBackend when no backend is healthy
\* a selector that returns any backend
SelectBackendResults_Any(strat, bs, idx) == Backends

SelectBackendResults(strat, bs, idx) ==
    {IF Len(healthyBackends(bs, order)) = 0
        THEN NoBackend
        ELSE PickBackend(strat, bs, healthyBackends(bs, order), idx) :
     order \in MapOrders(DOMAIN bs)}

(***************************************************************************)
(* Locks.  sync.RWMutex: a writer excludes everybody, readers exclude a    *)
(* writer.                                                                 *)
(***************************************************************************)
CanLock(mu) == mu.writer = Free /\ mu.readers = {}
CanRLock(mu) == mu.writer = Free
Unlocked == [writer |-> Free, readers |-> {}]

(***************************************************************************)
(* handleWebSocket (loadbalancer.go:114-198), one task per session.        *)
(***************************************************************************)
\* incs and decs count the backend.Connections++ and backend.Connections--
\* statements the handler of the session has executed
IdleSession ==
    [pc |-> "idle", clientID |-> "", backend |-> NoBackend, tmp |-> 0,
     serverLeg |-> "none", firstErr |-> "", result |-> "",
     incs |-> 0, decs |-> 0]

SetSess(s, r) == sess' = [sess EXCEPT ![s] = r]

\* lines 115-140: the upgrade succeeds and the registration message is read;
\* c is the client id it carries (or the one generated for an empty id)
Accept(s, c) ==
    /\ sess[s].pc = "idle"
    /\ SetSess(s, [IdleSession EXCEPT !.pc = "select", !.clientID = c])
    /\ UNCHANGED <<strategy, backends, roundRobinIdx, clients, clientsMu,
                   backendsMu, probing, node, nodeChanges, now>>
    /\ UNCHANGED <<selLog, nodeVars, fwdVars, sweep, client, connVars>>

\* lines 143-150 and 201-221: selectBackend under the read lock.  Under
\* round_robin the index is read here and written back in a second step
\* (the read lock does not exclude another selecting task).
SelectBackend(s) ==
    /\ sess[s].pc = "select"
    /\ CanRLock(backendsMu)
    /\ \E b \in SelectBackendResults(strategy, backends, roundRobinIdx) :
          IF b = NoBackend
          THEN /\ SetSess(s, [sess[s] EXCEPT !.pc = "closed",
                                             !.result = "no_backend"])
               /\ UNCHANGED backendsMu
          ELSE IF strategy = RoundRobin
          THEN /\ SetSess(s, [sess[s] EXCEPT !.pc = "rr_write", !.backend = b,
                                             !.tmp = roundRobinIdx])
               /\ backendsMu' = [backendsMu EXCEPT
                                    !.readers = @ \cup {s}]
          ELSE /\ SetSess(s, [sess[s] EXCEPT !.pc = "dial", !.backend = b])
               /\ UNCHANGED backendsMu
    /\ UNCHANGED <<strategy, backends, roundRobinIdx, clients, clientsMu,
                   probing, node, nodeChanges, now>>
    /\ UNCHANGED <<selLog, nodeVars, fwdVars, sweep, client, connVars>>

\* line 220: lb.roundRobinIdx++ written back, then the read lock released
SelectAdvance(s) ==
    /\ sess[s].pc = "rr_write"
    /\ roundRobinIdx' = sess[s].tmp + 1
    /\ backendsMu' = [backendsMu EXCEPT !.readers = @ \ {s}]
    /\ SetSess(s, [sess[s] EXCEPT !.pc = "dial", !.tmp = 0])
    /\ UNCHANGED <<strategy, backends, clients, clientsMu, probing, node,
                   nodeChanges, now>>
    /\ UNCHANGED <<selLog, nodeVars, fwdVars, sweep, client, connVars>>

\* a handler that selects again after a failed dial
Dial_Retry(s) ==
    /\ sess[s].pc = "dial"
    /\ IF node[sess[s].backend] = "down"
       THEN /\ backends' = [backends EXCEPT
                               ![sess[s].backend].IsHealthy = FALSE]
            /\ SetSess(s, [sess[s] EXCEPT !.pc = "select",
                                          !.backend = NoBackend])
       ELSE /\ SetSess(s, [sess[s] EXCEPT !.pc = "register",
                                          !.serverLeg = "open"])
            /\ UNCHANGED backends
    /\ UNCHANGED <<strategy, roundRobinIdx, clients, clientsMu, backendsMu,
                   probing, node, nodeChanges, now>>
    /\ UNCHANGED <<selLog, nodeVars, fwdVars, sweep, client, connVars>>

\* lines 153-160 and 240-254: connectToBackend.  The dial fails when the
\* backend process is down; the flag is then cleared without any lock.
Dial(s) ==
    /\ sess[s].pc = "dial"
    /\ IF node[sess[s].backend] = "down"
       THEN /\ backends' = [backends EXCEPT
                               ![sess[s].backend].IsHealthy = FALSE]
            /\ SetSess(s, [sess[s] EXCEPT !.pc = "closed",
                                          !.result = "dial_failed"])
       ELSE /\ SetSess(s, [sess[s] EXCEPT !.pc = "register",
                                          !.serverLeg = "open"])
            /\ UNCHANGED backends
    /\ UNCHANGED <<strategy, roundRobinIdx, clients, clientsMu, backendsMu,
                   probing, node, nodeChanges, now>>
    /\ UNCHANGED <<selLog, nodeVars, fwdVars, sweep, client, connVars>>

\* lines 175-177: under clientsMu the record is stored and the count read
RegisterRead(s) ==
    /\ sess[s].pc = "register"
    /\ clientsMu = Free
    /\ clientsMu' = Holder(s)
    /\ clients' = [clients EXCEPT ![sess[s].clientID] = <<s>>]
    /\ SetSess(s, [sess[s] EXCEPT !.pc = "reg_write",
                                  !.tmp = backends[sess[s].backend].Connections])
    /\ UNCHANGED <<strategy, backends, roundRobinIdx, backendsMu, probing,
                   node, nodeChanges, now>>
    /\ UNCHANGED <<selLog, nodeVars, fwdVars, sweep, client, connVars>>

\* lines 177-197: backend.Connections++ written back, clientsMu released,
\* the registration forwarded and the two forwarders started
RegisterWrite(s) ==
    /\ sess[s].pc = "reg_write"
    /\ backends' = [backends EXCEPT
                       ![sess[s].backend].Connections = sess[s].tmp + 1]
    /\ clientsMu' = Free
    /\ SetSess(s, [sess[s] EXCEPT !.pc = "forward", !.tmp = 0,
                                  !.incs = sess[s].incs + 1])
    /\ UNCHANGED <<strategy, roundRobinIdx, clients, backendsMu, probing,
                   node, nodeChanges, now>>
    /\ UNCHANGED <<selLog, nodeVars, fwdVars, sweep, client, connVars>>

\* lines 279-283 and 309-313: a forwarder's read fails.  The client may
\* leave at any time; the backend leg fails when the backend process died
\* while the leg was open.
LegFails(s, side) ==
    \/ side = "client"
    \/ side = "server" /\ sess[s].serverLeg = "broken"

\* lines 326-353: the first forwarder error (on clientError or on
\* serverError) ends forwardMessages; the deferred cleanupConnection closes
\* both legs
ForwardStop(s, side) ==
    /\ sess[s].pc = "forward"
    /\ LegFails(s, side)
    /\ SetSess(s, [sess[s] EXCEPT !.pc = "cleanup", !.firstErr = side,
                                  !.serverLeg = "closed"])
    /\ UNCHANGED <<strategy, backends, roundRobinIdx, clients, clientsMu,
                   backendsMu, probing, node, nodeChanges, now>>
    /\ UNCHANGED <<selLog, nodeVars, fwdVars, sweep, client, connVars>>

\* lines 356-358: cleanupConnection removes the record of the client id
CleanupDelete(s) ==
    /\ sess[s].pc = "cleanup"
    /\ clientsMu = Free
    /\ clients' = [clients EXCEPT ![sess[s].clientID] = NoSession]
    /\ SetSess(s, [sess[s] EXCEPT !.pc = "cl_lock"])
    /\ UNCHANGED <<strategy, backends, roundRobinIdx, clientsMu, backendsMu,
                   probing, node, nodeChanges, now>>
    /\ UNCHANGED <<selLog, nodeVars, fwdVars, sweep, client, connVars>>

\* lines 361-365: backendsMu taken, `if backend.Connections > 0`
CleanupCheck(s) ==
    /\ sess[s].pc = "cl_lock"
    /\ CanLock(backendsMu)
    /\ IF backends[sess[s].backend].Connections > 0
       THEN /\ backendsMu' = [backendsMu EXCEPT !.writer = Holder(s)]
            /\ SetSess(s, [sess[s] EXCEPT !.pc = "cl_read"])
       ELSE /\ UNCHANGED backendsMu
            /\ SetSess(s, [sess[s] EXCEPT !.pc = "defer"])
    /\ UNCHANGED <<strategy, backends, roundRobinIdx, clients, clientsMu,
                   probing, node, nodeChanges, now>>
    /\ UNCHANGED <<selLog, nodeVars, fwdVars, sweep, client, connVars>>

\* line 366: backend.Connections-- reads the count ...
CleanupRead(s) ==
    /\ sess[s].pc = "cl_read"
    /\ SetSess(s, [sess[s] EXCEPT !.pc = "cl_write",
                                  !.tmp = backends[sess[s].backend].Connections])
    /\ UNCHANGED <<strategy, backends, roundRobinIdx, clients, clientsMu,
                   backendsMu, probing, node, nodeChanges, now>>
    /\ UNCHANGED <<selLog, nodeVars, fwdVars, sweep, client, connVars>>

\* ... and writes it back; line 372 releases backendsMu
CleanupWrite(s) ==
    /\ sess[s].pc = "cl_write"
    /\ backends' = [backends EXCEPT
                       ![sess[s].backend].Connections = sess[s].tmp - 1]
    /\ backendsMu' = [backendsMu EXCEPT !.writer = Free]
    /\ SetSess(s, [sess[s] EXCEPT !.pc = "defer", !.tmp = 0,
                                  !.decs = sess[s].decs + 1])
    /\ UNCHANGED <<strategy, roundRobinIdx, clients, clientsMu, probing,
                   node, nodeChanges, now>>
    /\ UNCHANGED <<selLog, nodeVars, fwdVars, sweep, client, connVars>>

\* lines 186-189: the deferred function of handleWebSocket takes clientsMu,
\* removes the record of the client id and tests the count again
DeferCheck(s) ==
    /\ sess[s].pc = "defer"
    /\ clientsMu = Free
    /\ clients' = [clients EXCEPT ![sess[s].clientID] = NoSession]
    /\ IF backends[sess[s].backend].Connections > 0
       THEN /\ clientsMu' = Holder(s)
            /\ SetSess(s, [sess[s] EXCEPT !.pc = "df_read"])
       ELSE /\ UNCHANGED clientsMu
            /\ SetSess(s, [sess[s] EXCEPT !.pc = "closed",
                                          !.result = "ended"])
    /\ UNCHANGED <<strategy, backends, roundRobinIdx, backendsMu, probing,
                   node, nodeChanges, now>>
    /\ UNCHANGED <<selLog, nodeVars, fwdVars, sweep, client, connVars>>

\* line 190: backend.Connections-- reads the count ...
DeferRead(s) ==
    /\ sess[s].pc = "df_read"
    /\ SetSess(s, [sess[s] EXCEPT !.pc = "df_write",
                                  !.tmp = backends[sess[s].backend].Connections])
    /\ UNCHANGED <<strategy, backends, roundRobinIdx, clients, clientsMu,
                   backendsMu, probing, node, nodeChanges, now>>
    /\ UNCHANGED <<selLog, nodeVars, fwdVars, sweep, client, connVars>>

\* ... and writes it back; line 192 releases clientsMu and the handler ends
DeferWrite(s) ==
    /\ sess[s].pc = "df_write"
    /\ backends' = [backends EXCEPT
                       ![sess[s].backend].Connections = sess[s].tmp - 1]
    /\ clientsMu' = Free
    /\ SetSess(s, [sess[s] EXCEPT !.pc = "closed", !.tmp = 0,
                                  !.result = "ended",
                                  !.decs = sess[s].decs + 1])
    /\ UNCHANGED <<strategy, roundRobinIdx, clients, backendsMu, probing,
                   node, nodeChanges, now>>
    /\ UNCHANGED <<selLog, nodeVars, fwdVars, sweep, client, connVars>>

(***************************************************************************)
(* healthChecker / checkBackendsHealth (loadbalancer.go:480-525).          *)
(***************************************************************************)
\* a round that marks every backend healthy without looking at the answer
ProbeSaysHealthy_Always(answer) == TRUE

\* lines 509-521: `err == nil` is all the round looks at: the backend is
\* healthy when the GET got any response, whatever its status
ProbeSaysHealthy(answer) == answer # "down"

\* lines 484-492: a tick of the ticker starts a round under the write lock
HealthRoundStart ==
    /\ probing = {}
    /\ CanLock(backendsMu)
    /\ backendsMu' = [backendsMu EXCEPT !.writer = Prober]
    /\ probing' = Backends
    /\ UNCHANGED <<strategy, backends, roundRobinIdx, clients, clientsMu,
                   sess, node, nodeChanges, now>>
    /\ UNCHANGED <<selLog, nodeVars, fwdVars, sweep, client, connVars>>

\* a round that also zeroes the count of a backend it finds unhealthy
ProbeBackend_Drop(b) ==
    /\ backendsMu.writer = Prober
    /\ b \in probing
    /\ backends' = [backends EXCEPT
                       ![b].IsHealthy = ProbeSaysHealthy(node[b]),
                       ![b].Connections =
                           IF ProbeSaysHealthy(node[b]) THEN @ ELSE 0,
                       ![b].LastCheck = now]
    /\ probing' = probing \ {b}
    /\ backendsMu' = IF probing' = {}
                     THEN [backendsMu EXCEPT !.writer = Free]
                     ELSE backendsMu
    /\ UNCHANGED <<strategy, roundRobinIdx, clients, clientsMu, sess, node,
                   nodeChanges, now>>
    /\ UNCHANGED <<selLog, nodeVars, fwdVars, sweep, client, connVars>>

\* lines 494-524: the next backend of the loop is probed and its flag and
\* last-check time are set; after the last one the lock is released
ProbeBackend(b) ==
    /\ backendsMu.writer = Prober
    /\ b \in probing
    /\ backends' = [backends EXCEPT
                       ![b].IsHealthy = ProbeSaysHealthy(node[b]),
                       ![b].LastCheck = now]
    /\ probing' = probing \ {b}
    /\ backendsMu' = IF probing' = {}
                     THEN [backendsMu EXCEPT !.writer = Free]
                     ELSE backendsMu
    /\ UNCHANGED <<strategy, roundRobinIdx, clients, clientsMu, sess, node,
                   nodeChanges, now>>
    /\ UNCHANGED <<selLog, nodeVars, fwdVars, sweep, client, connVars>>

(***************************************************************************)
(* The environment of the proxy.                                           *)
(***************************************************************************)
\* "ok": the process runs and /health answers 200; "err500": it runs and
\* /health answers 500; "down": nothing answers and a dial is refused
NodeConditions == {"ok", "err500", "down"}

\* the legs into a backend process break when the process dies
BreakLegs(down) ==
    [s \in Sessions |->
        IF sess[s].serverLeg = "open" /\ sess[s].backend \in down
        THEN [sess[s] EXCEPT !.serverLeg = "broken"]
        ELSE sess[s]]

NodeChange(b, c) ==
    /\ nodeChanges < MaxNodeChanges
    /\ c # node[b]
    /\ node' = [node EXCEPT ![b] = c]
    /\ nodeChanges' = nodeChanges + 1
    /\ sess' = IF c = "down" THEN BreakLegs({b}) ELSE sess
    /\ UNCHANGED <<strategy, backends, roundRobinIdx, clients, clientsMu,
                   backendsMu, probing, now>>
    /\ UNCHANGED <<selLog, nodeVars, fwdVars, sweep, client, connVars>>

\* `kill $NODE1_PID $NODE2_PID $NODE3_PID`: every backend process is killed
KillAll ==
    /\ \E b \in Backends : node[b] # "down"
    /\ node' = [b \in Backends |-> "down"]
    /\ sess' = BreakLegs(Backends)
    /\ UNCHANGED <<strategy, backends, roundRobinIdx, clients, clientsMu,
                   backendsMu, probing, nodeChanges, now>>
    /\ UNCHANGED <<selLog, nodeVars, fwdVars, sweep, client, connVars>>

(***************************************************************************)
(* The backend processes: server.go and global_clients.go.  Each backend   *)
(* is a process of its own with its own globalRegistry; the processes      *)
(* share the working directory and hence the file global_clients.json.     *)
(***************************************************************************)
Legs == 1..MaxLegs

NoLeg == <<>>

\* a client id without a record in a registry map
AbsentRec ==
    [present |-> FALSE, NodeID |-> "", LastSeen |-> 0, IsActive |-> FALSE,
     Status |-> ""]

\* lines 34-37: make(map[string]*GlobalClientInfo)
EmptyRegistry == [c \in ClientIds |-> AbsentRec]

NoFileYet == [exists |-> FALSE, clients |-> EmptyRegistry]

\* lines 73-84: the whole map of the saving process replaces the file
saveToFileUnsafe(reg) == [exists |-> TRUE, clients |-> reg]

\* lines 249-258: the record RegisterGlobalClient builds
NewGlobalClientInfo(p) ==
    [present |-> TRUE, NodeID |-> p, LastSeen |-> now, IsActive |-> TRUE,
     Status |-> "online"]

\* lines 94-103
RegisterClient(reg, c, p) == [reg EXCEPT ![c] = NewGlobalClientInfo(p)]

\* lines 106-115
UnregisterClient(reg, c) == [reg EXCEPT ![c] = AbsentRec]

\* an update that restarts the last-seen time
UpdateClientActivity_Zero(reg, c) ==
    IF reg[c].present
    THEN [reg EXCEPT ![c].LastSeen = 0, ![c].Status = "online"]
    ELSE reg

\* lines 118-127
UpdateClientActivity(reg, c) ==
    IF reg[c].present
    THEN [reg EXCEPT ![c].LastSeen = now, ![c].Status = "online"]
    ELSE reg

\* a read that returns the record as it is stored
GetClient_NoRefresh(reg, c) == reg

\* lines 170-182: GetClient refreshes the flags of the record it returns
GetClient(reg, c) ==
    IF ~reg[c].present THEN reg
    ELSE IF now - reg[c].LastSeen > OfflineAfter
         THEN [reg EXCEPT ![c].IsActive = FALSE, ![c].Status = "offline"]
         ELSE [reg EXCEPT ![c].IsActive = TRUE,
                          ![c].Status = IF @ \in {"", "offline"}
                                        THEN "online" ELSE @]

\* lines 130-139
SetClientStatus(reg, c, status) ==
    IF reg[c].present
    THEN [reg EXCEPT ![c].Status = status, ![c].LastSeen = now]
    ELSE reg

\* lines 142-163: GetAllClients refreshes the flags of every record
RECURSIVE GetAllOver(_, _)
GetAllOver(reg, ids) ==
    IF ids = {} THEN reg
    ELSE LET c == CHOOSE x \in ids : TRUE
         IN  GetAllOver(GetClient(reg, c), ids \ {c})

GetAllClients(reg) == GetAllOver(reg, ClientIds)

\* a sweep with the threshold of the offline report
CleanupOfflineClients_Offline(reg) ==
    [c \in ClientIds |->
        IF reg[c].present /\ now - reg[c].LastSeen > OfflineAfter
        THEN AbsentRec ELSE reg[c]]

\* lines 213-223: the records silent for more than five minutes are deleted
CleanupOfflineClients(reg) ==
    [c \in ClientIds |->
        IF reg[c].present /\ now - reg[c].LastSeen > SweepAfterMinutes * 60
        THEN AbsentRec ELSE reg[c]]

IdleLeg ==
    [pc |-> "idle", node |-> "", clientID |-> "", sock |-> "none", got |-> 0]

NoResp == [status |-> 0, success |-> FALSE]

NoCommand ==
    [pc |-> "idle", entry |-> "", client |-> "", stack |-> <<>>,
     resp |-> NoResp, ownerResp |-> NoResp, success |-> FALSE,
     openAtPost |-> {}]

\* main.go line 22 and global_clients.go lines 33-70: a backend process
\* starts; it reads the file into its own map, or creates the file
NodeStart(p) ==
    /\ ~procUp[p]
    /\ procUp' = [procUp EXCEPT ![p] = TRUE]
    /\ IF file.exists
       THEN /\ greg' = [greg EXCEPT ![p] = file.clients]
            /\ file' = file
       ELSE /\ greg' = [greg EXCEPT ![p] = EmptyRegistry]
            /\ file' = saveToFileUnsafe(EmptyRegistry)
    /\ localClients' = [localClients EXCEPT ![p] = [c \in ClientIds |-> NoLeg]]
    /\ UNCHANGED <<legs, cmd, stops>>
    /\ UNCHANGED <<lbVars, selLog, fwdVars, sweep, client, connVars>>

\* `kill $NODE_PID`: a backend process is killed; its legs drop without the
\* deferred cleanup, its memory is lost, the file stays.  A process is not
\* killed while it handles the admin request.
NodeStop(p) ==
    /\ procUp[p]
    /\ stops < MaxStops
    /\ \A i \in 1..Len(cmd.stack) : cmd.stack[i] # p
    /\ stops' = stops + 1
    /\ procUp' = [procUp EXCEPT ![p] = FALSE]
    /\ greg' = [greg EXCEPT ![p] = EmptyRegistry]
    /\ localClients' = [localClients EXCEPT ![p] = [c \in ClientIds |-> NoLeg]]
    /\ legs' = [l \in Legs |->
                  IF legs[l].node = p /\ legs[l].pc \notin {"idle", "closed"}
                  THEN [legs[l] EXCEPT !.pc = "killed", !.sock = "closed"]
                  ELSE legs[l]]
    /\ UNCHANGED <<file, cmd>>
    /\ UNCHANGED <<lbVars, selLog, fwdVars, sweep, client, connVars>>

\* server.go lines 72-111: the upgrade, the registration envelope with
\* client_id c, and the insertion into s.clients
LegAccept(l, p, c) ==
    /\ procUp[p]
    /\ legs[l].pc = "idle"
    /\ \A k \in Legs : k < l => legs[k].pc # "idle"
    /\ legs' = [legs EXCEPT ![l] = [pc |-> "inserted", node |-> p,
                                    clientID |-> c, sock |-> "open",
                                    got |-> 0]]
    /\ localClients' = [localClients EXCEPT ![p][c] = <<l>>]
    /\ UNCHANGED <<procUp, file, greg, cmd, stops>>
    /\ UNCHANGED <<lbVars, selLog, fwdVars, sweep, client, connVars>>

\* server.go line 114: RegisterGlobalClient
LegRegister(l) ==
    LET p == legs[l].node
        c == legs[l].clientID
        reg == RegisterClient(greg[p], c, p)
    IN  /\ legs[l].pc = "inserted"
        /\ greg' = [greg EXCEPT ![p] = reg]
        /\ file' = saveToFileUnsafe(reg)
        /\ legs' = [legs EXCEPT ![l].pc = "loop"]
        /\ UNCHANGED <<procUp, localClients, cmd, stops>>
        /\ UNCHANGED <<lbVars, selLog, fwdVars, sweep, client, connVars>>

\* server.go lines 146-149 and 479-488: a command_response envelope
LegCommandResponse(l) ==
    LET p == legs[l].node
        c == legs[l].clientID
        reg == UpdateClientActivity(greg[p], c)
    IN  /\ legs[l].pc = "loop"
        /\ legs[l].sock = "open"
        /\ greg[p][c].present
        /\ greg' = [greg EXCEPT ![p] = reg]
        /\ file' = saveToFileUnsafe(reg)
        /\ UNCHANGED <<procUp, localClients, legs, cmd, stops>>
        /\ UNCHANGED <<lbVars, selLog, fwdVars, sweep, client, connVars>>

\* server.go lines 135-141: ReadJSON fails (the peer is gone, or the frame
\* is not JSON) and the loop is left; the socket is closed by the deferred
\* conn.Close() only
LegReadError(l) ==
    /\ legs[l].pc = "loop"
    /\ legs' = [legs EXCEPT ![l].pc = "leaving", ![l].sock = "peer_gone"]
    /\ UNCHANGED <<procUp, file, greg, localClients, cmd, stops>>
    /\ UNCHANGED <<lbVars, selLog, fwdVars, sweep, client, connVars>>

\* server.go lines 121-123: the deferred delete(s.clients, clientID)
LegLocalDelete(l) ==
    LET p == legs[l].node
        c == legs[l].clientID
    IN  /\ legs[l].pc = "leaving"
        /\ localClients' = [localClients EXCEPT ![p][c] = NoLeg]
        /\ legs' = [legs EXCEPT ![l].pc = "unreg"]
        /\ UNCHANGED <<procUp, file, greg, cmd, stops>>
        /\ UNCHANGED <<lbVars, selLog, fwdVars, sweep, client, connVars>>

\* server.go line 126 and line 78: the deferred UnregisterGlobalClient,
\* then the deferred conn.Close()
LegUnregister(l) ==
    LET p == legs[l].node
        c == legs[l].clientID
        reg == UnregisterClient(greg[p], c)
    IN  /\ legs[l].pc = "unreg"
        /\ greg' = [greg EXCEPT ![p] = reg]
        /\ file' = IF greg[p][c].present THEN saveToFileUnsafe(reg) ELSE file
        /\ legs' = [legs EXCEPT ![l].pc = "closed", ![l].sock = "closed"]
        /\ UNCHANGED <<procUp, localClients, cmd, stops>>
        /\ UNCHANGED <<lbVars, selLog, fwdVars, sweep, client, connVars>>

\* the admin posts {client_id: c, command, data} to backend p
CmdPost(p, c) ==
    /\ cmd.pc = "idle"
    /\ procUp[p]
    /\ cmd' = [NoCommand EXCEPT
                 !.pc = "running", !.entry = p, !.client = c,
                 !.stack = <<p>>,
                 !.openAtPost = {l \in Legs : /\ legs[l].pc = "loop"
                                              /\ legs[l].sock = "open"
                                              /\ legs[l].clientID = c}]
    /\ UNCHANGED <<procUp, file, greg, localClients, legs, stops>>
    /\ UNCHANGED <<lbVars, selLog, fwdVars, sweep, client, connVars>>

\* the backend whose handler is running the request
Handler == cmd.stack[Len(cmd.stack)]

Handling ==
    /\ cmd.pc = "running"
    /\ cmd.resp = NoResp

\* server.go lines 380-388: no record for the client in this process
CmdNotFound ==
    /\ Handling
    /\ ~greg[Handler][cmd.client].present
    /\ cmd' = [cmd EXCEPT !.resp = [status |-> StatusOK, success |-> FALSE]]
    /\ UNCHANGED <<procUp, file, greg, localClients, legs, stops>>
    /\ UNCHANGED <<lbVars, selLog, fwdVars, sweep, client, connVars>>

\* what WriteJSON returns on a socket: nil on an open one; once the peer is
\* gone the write fails or is accepted by the kernel and lost
WriteJSONResults(sock) ==
    IF sock = "open" THEN {TRUE}
    ELSE IF sock = "peer_gone" THEN {TRUE, FALSE}
    ELSE {FALSE}

\* server.go lines 391-405 and 423-449: the record names this backend
CmdLocal ==
    LET p == Handler
        c == cmd.client
        reg == GetClient(greg[p], c)
        e == localClients[p][c]
    IN  /\ Handling
        /\ greg[p][c].present
        /\ greg[p][c].NodeID = p
        /\ IF e = NoLeg
           THEN /\ cmd' = [cmd EXCEPT !.resp = [status |-> StatusOK,
                                                success |-> FALSE]]
                /\ greg' = [greg EXCEPT ![p] = reg]
                /\ UNCHANGED <<file, legs>>
           ELSE \E ok \in WriteJSONResults(legs[e[1]].sock) :
                  /\ cmd' = [cmd EXCEPT !.resp = [status |-> StatusOK,
                                                  success |-> ok]]
                  /\ legs' = IF ok /\ legs[e[1]].sock = "open"
                             THEN [legs EXCEPT ![e[1]].got = 1]
                             ELSE legs
                  /\ IF ok
                     THEN /\ greg' = [greg EXCEPT
                                        ![p] = UpdateClientActivity(reg, c)]
                          /\ file' = saveToFileUnsafe(greg'[p])
                     ELSE /\ greg' = [greg EXCEPT ![p] = reg]
                          /\ file' = file
        /\ UNCHANGED <<procUp, localClients, stops>>
        /\ UNCHANGED <<lbVars, selLog, fwdVars, sweep, client, connVars>>

\* server.go lines 408 and 452-468: the record names another backend and
\* the request is posted to it
CmdForward ==
    LET p == Handler
        c == cmd.client
        q == greg[p][c].NodeID
    IN  /\ Handling
        /\ greg[p][c].present
        /\ q # p
        /\ procUp[q]
        /\ Len(cmd.stack) < MaxHops
        /\ greg' = [greg EXCEPT ![p] = GetClient(greg[p], c)]
        /\ cmd' = [cmd EXCEPT !.stack = Append(@, q)]
        /\ UNCHANGED <<procUp, file, localClients, legs, stops>>
        /\ UNCHANGED <<lbVars, selLog, fwdVars, sweep, client, connVars>>

\* server.go lines 468-472 and 409-419: nothing listens on the port of the
\* backend the record names
CmdForwardFails ==
    LET p == Handler
        c == cmd.client
        q == greg[p][c].NodeID
    IN  /\ Handling
        /\ greg[p][c].present
        /\ q # p
        /\ ~procUp[q]
        /\ greg' = [greg EXCEPT ![p] = GetClient(greg[p], c)]
        /\ cmd' = [cmd EXCEPT !.resp = [status |-> StatusOK,
                                        success |-> FALSE]]
        /\ UNCHANGED <<procUp, file, localClients, legs, stops>>
        /\ UNCHANGED <<lbVars, selLog, fwdVars, sweep, client, connVars>>

\* server.go line 475: what forwardCommandToOtherNode makes of the answer
forwardCommandToOtherNode(resp) == resp.status = StatusOK

\* the handler on top has answered.  The answer goes to the admin, or to
\* the backend that forwarded (lines 473-475, 409-419), which answers in
\* its turn
CmdReturn ==
    /\ cmd.pc = "running"
    /\ cmd.resp # NoResp
    /\ IF Len(cmd.stack) = 1
       THEN cmd' = [cmd EXCEPT !.pc = "done", !.stack = <<>>,
                               !.success = cmd.resp.success]
       ELSE cmd' = [cmd EXCEPT
                      !.stack = SubSeq(@, 1, Len(@) - 1),
                      !.ownerResp = IF Len(cmd.stack) = 2
                                    THEN cmd.resp ELSE @,
                      !.resp = [status |-> StatusOK,
                                success |->
                                    forwardCommandToOtherNode(cmd.resp)]]
    /\ UNCHANGED <<procUp, file, greg, localClients, legs, stops>>
    /\ UNCHANGED <<lbVars, selLog, fwdVars, sweep, client, connVars>>

LegStep(l) ==
    \/ \E p \in Backends, c \in ClientIds : LegAccept(l, p, c)
    \/ LegRegister(l)
    \/ LegCommandResponse(l)
    \/ LegReadError(l)
    \/ LegLocalDelete(l)
    \/ LegUnregister(l)

NextNode ==
    \/ \E p \in Backends : NodeStart(p)
    \/ \E p \in Backends : NodeStop(p)
    \/ \E l \in Legs : LegStep(l)
    \/ \E p \in Backends, c \in ClientIds : CmdPost(p, c)
    \/ CmdNotFound
    \/ CmdLocal
    \/ CmdForward
    \/ CmdForwardFails
    \/ CmdReturn

InitNodes ==
    /\ procUp = [p \in Backends |-> FALSE]
    /\ file = NoFileYet
    /\ greg = [p \in Backends |-> EmptyRegistry]
    /\ localClients = [p \in Backends |-> [c \in ClientIds |-> NoLeg]]
    /\ legs = [l \in Legs |-> IdleLeg]
    /\ cmd = NoCommand
    /\ stops = 0

(***************************************************************************)
(* The two forwarders of one session: forwardMessages of loadbalancer.go.  *)
(* A frame is a WebSocket data message: its type and its JSON text.  The   *)
(* text of an object is the sequence of its members as written; a number   *)
(* <<hi, lo>> stands for the integer literal hi * 2^30 + lo.               *)
(***************************************************************************)
Dirs == {"c2s", "s2c"}
Sides == {"client", "server"}

\* lines 279 and 289, 309 and 317: where a direction reads and writes
Source(d) == IF d = "c2s" THEN "client" ELSE "server"
Target(d) == IF d = "c2s" THEN "server" ELSE "client"

Keys == {"id", "type"}
\* the order json.Marshal gives the keys of a map
SortedKeys == <<"id", "type">>

\* the literals 1 and 2^53 + 1
Numbers == {<<0, 1>>, <<2^23, 1>>}

Members == Keys \X Numbers

ObjectTexts ==
    {<<>>} \cup {<<m>> : m \in Members}
           \cup {<<m, n>> : m \in Members, n \in Members}

\* the frames a peer may send
Frames ==
    [type : {"text", "binary"}, json : {"object"}, text : ObjectTexts]
    \cup [type : {"text"}, json : {"array", "malformed"}, text : {<<>>}]

RECURSIVE BitLen(_)
BitLen(n) == IF n = 0 THEN 0 ELSE 1 + BitLen(n \div 2)

\* json.Unmarshal into interface{} stores a number as float64: the integer
\* is rounded to 53 significant bits, ties to even
ToFloat64(v) ==
    LET drop == BitLen(v[1]) + 30 - 53
        unit == 2^drop
        rest == v[2] % unit
        down == v[2] - rest
        up   == \/ 2 * rest > unit
                \/ 2 * rest = unit /\ (down \div unit) % 2 = 1
        lo   == IF up THEN down + unit ELSE down
    IN  IF v[1] = 0 \/ drop <= 0 THEN v
        ELSE IF lo = 2^30 THEN <<v[1] + 1, 0>> ELSE <<v[1], lo>>

NoValue == <<>>

\* ReadJSON into map[string]interface{}: only an object decodes
Decodes(f) == f.json = "object"

\* the map the object decodes to: the last member of a key wins
Decode(f) ==
    [k \in Keys |->
        LET at == {i \in 1..Len(f.text) : f.text[i][1] = k}
        IN  IF at = {} THEN NoValue
            ELSE ToFloat64(f.text[CHOOSE i \in at : \A j \in at : j <= i][2])]

\* WriteJSON of the map: a text message, the keys in sorted order
Encode(m) ==
    [type |-> "text", json |-> "object",
     text |-> LET all == [i \in 1..Len(SortedKeys) |->
                             <<SortedKeys[i], m[SortedKeys[i]]>>]
              IN  SelectSeq(all, LAMBDA p : p[2] # NoValue)]

NoMsg == [k \in Keys |-> NoValue]

FramesRead == Len(fwdRead["c2s"]) + Len(fwdRead["s2c"])

fwdUnchanged == UNCHANGED <<lbVars, selLog, nodeVars, sweep, client, connVars>>

\* lines 272-276: the select on done at the head of the loop
FwdSelect(d) ==
    /\ fwdPc[d] = "select"
    /\ fwdPc' = [fwdPc EXCEPT ![d] = IF fwdDone THEN "returned" ELSE "read"]
    /\ UNCHANGED <<fwdMsg, fwdRead, fwdWritten, fwdDone, fwdConn>>
    /\ fwdUnchanged

\* lines 278-284 and 308-314: ReadJSON returns the next frame of the leg,
\* decoded, or the error of decoding it
FwdRead(d, f) ==
    /\ fwdPc[d] = "read"
    /\ fwdConn[Source(d)] = "open"
    /\ FramesRead < MaxFrames
    /\ fwdRead' = [fwdRead EXCEPT ![d] = Append(@, f)]
    /\ IF Decodes(f)
       THEN /\ fwdMsg' = [fwdMsg EXCEPT ![d] = Decode(f)]
            /\ fwdPc' = [fwdPc EXCEPT ![d] = "write"]
       ELSE /\ fwdMsg' = fwdMsg
            /\ fwdPc' = [fwdPc EXCEPT ![d] = "failed"]
    /\ UNCHANGED <<fwdWritten, fwdDone, fwdConn>>
    /\ fwdUnchanged

\* lines 279-284 and 309-314: ReadJSON fails on a leg that is gone
FwdReadFails(d) ==
    /\ fwdPc[d] = "read"
    /\ fwdConn[Source(d)] # "open"
    /\ fwdPc' = [fwdPc EXCEPT ![d] = "failed"]
    /\ UNCHANGED <<fwdMsg, fwdRead, fwdWritten, fwdDone, fwdConn>>
    /\ fwdUnchanged

\* lines 289-294 and 317-322: WriteJSON of the decoded map
FwdWrite(d) ==
    /\ fwdPc[d] = "write"
    /\ IF fwdConn[Target(d)] = "open"
       THEN /\ fwdWritten' = [fwdWritten EXCEPT
                                ![d] = Append(@, Encode(fwdMsg[d]))]
            /\ fwdPc' = [fwdPc EXCEPT ![d] = "select"]
       ELSE /\ fwdWritten' = fwdWritten
            /\ fwdPc' = [fwdPc EXCEPT ![d] = "failed"]
    /\ fwdMsg' = [fwdMsg EXCEPT ![d] = NoMsg]
    /\ UNCHANGED <<fwdRead, fwdDone, fwdConn>>
    /\ fwdUnchanged

\* lines 327-339: the first error wakes forwardMessages, which closes done
FwdCloseDone ==
    /\ fwdPc["main"] = "wait"
    /\ \E d \in Dirs : fwdPc[d] = "failed"
    /\ fwdDone' = TRUE
    /\ fwdPc' = [fwdPc EXCEPT !["main"] = "cleanup"]
    /\ UNCHANGED <<fwdMsg, fwdRead, fwdWritten, fwdConn>>
    /\ fwdUnchanged

\* forwardMessages returning without its deferred cleanupConnection
FwdCloseLegs_NoClose ==
    /\ fwdPc["main"] = "cleanup"
    /\ fwdPc' = [fwdPc EXCEPT !["main"] = "closed"]
    /\ UNCHANGED <<fwdMsg, fwdRead, fwdWritten, fwdDone, fwdConn>>
    /\ fwdUnchanged

\* lines 258-261 and 348-353: the deferred cleanupConnection closes both
\* legs
FwdCloseLegs ==
    /\ fwdPc["main"] = "cleanup"
    /\ fwdConn' = [s \in Sides |-> "closed"]
    /\ fwdPc' = [fwdPc EXCEPT !["main"] = "closed"]
    /\ UNCHANGED <<fwdMsg, fwdRead, fwdWritten, fwdDone>>
    /\ fwdUnchanged

\* the peer of a leg goes away
FwdPeerGone(s) ==
    /\ fwdConn[s] = "open"
    /\ fwdConn' = [fwdConn EXCEPT ![s] = "peer_gone"]
    /\ UNCHANGED <<fwdPc, fwdMsg, fwdRead, fwdWritten, fwdDone>>
    /\ fwdUnchanged

NextFwd ==
    \/ \E d \in Dirs : FwdSelect(d)
    \/ \E d \in Dirs, f \in Frames : FwdRead(d, f)
    \/ \E d \in Dirs : FwdReadFails(d)
    \/ \E d \in Dirs : FwdWrite(d)
    \/ FwdCloseDone
    \/ FwdCloseLegs
    \/ \E s \in Sides : FwdPeerGone(s)

\* line 197: forwardMessages is entered with both legs open
InitFwd ==
    /\ fwdPc = [t \in Dirs \cup {"main"} |->
                   IF t = "main" THEN "wait" ELSE "select"]
    /\ fwdMsg = [d \in Dirs |-> NoMsg]
    /\ fwdRead = [d \in Dirs |-> <<>>]
    /\ fwdWritten = [d \in Dirs |-> <<>>]
    /\ fwdDone = FALSE
    /\ fwdConn = [s \in Sides |-> "open"]

(***************************************************************************)
(* The proxy: NewLoadBalancer and AddBackend for each configured backend.  *)
(***************************************************************************)
\* lines 78-84: the descriptor AddBackend installs
NewBackend == [Connections |-> 0, IsHealthy |-> TRUE, LastCheck |-> 0]

InitProxy ==
    /\ strategy \in Strategies
    /\ backends = [b \in Backends |-> NewBackend]
    /\ roundRobinIdx = 0
    /\ clients = [c \in ClientIds |-> NoSession]
    /\ clientsMu = Free
    /\ backendsMu = Unlocked
    /\ sess = [s \in Sessions |-> IdleSession]
    /\ probing = {}
    /\ node = [b \in Backends |-> "ok"]
    /\ nodeChanges = 0
    /\ now = 0
    /\ selLog = <<>>

InitLB ==
    /\ InitProxy /\ InitNodes /\ InitFwd /\ sweep = NoSweep
    /\ client = NewClient /\ InitConn

SessionStep(s) ==
    \/ \E c \in ClientIds : Accept(s, c)
    \/ SelectBackend(s)
    \/ SelectAdvance(s)
    \/ Dial(s)
    \/ RegisterRead(s)
    \/ RegisterWrite(s)
    \/ \E side \in {"client", "server"} : ForwardStop(s, side)
    \/ CleanupDelete(s)
    \/ CleanupCheck(s)
    \/ CleanupRead(s)
    \/ CleanupWrite(s)
    \/ DeferCheck(s)
    \/ DeferRead(s)
    \/ DeferWrite(s)

NextLB ==
    \/ \E s \in Sessions : SessionStep(s)
    \/ HealthRoundStart
    \/ \E b \in Backends : ProbeBackend(b)
    \/ \E b \in Backends, c \in NodeConditions : NodeChange(b, c)

Spec == InitLB /\ [][NextLB]_vars

(***************************************************************************)
(* The teardown scenario: sessions are opened, then every backend process  *)
(* is killed.  The handler tasks and the prober are scheduled fairly; a    *)
(* mutex is granted to a task that keeps asking for it (sync.Mutex hands a *)
(* starving waiter the lock), hence the strong fairness.                   *)
(***************************************************************************)
\* the steps a handler task takes by itself once its request is accepted
SessionProgress(s) ==
    \/ SelectBackend(s)
    \/ SelectAdvance(s)
    \/ Dial(s)
    \/ RegisterRead(s)
    \/ RegisterWrite(s)
    \/ ForwardStop(s, "server")
    \/ CleanupDelete(s)
    \/ CleanupCheck(s)
    \/ CleanupRead(s)
    \/ CleanupWrite(s)
    \/ DeferCheck(s)
    \/ DeferRead(s)
    \/ DeferWrite(s)

NextKill ==
    \/ \E s \in Sessions : \E c \in ClientIds : Accept(s, c)
    \/ \E s \in Sessions : SessionProgress(s)
    \/ HealthRoundStart
    \/ \E b \in Backends : ProbeBackend(b)
    \/ KillAll

(***************************************************************************)
(* The selector on its own: requests select one after another (each call   *)
(* of selectBackend runs to its end before the next starts), and between   *)
(* calls the health flag of a backend may change.                          *)
(***************************************************************************)
\* r.RemoteAddr of the requests, the argument of selectBackend
Fingerprints == {"10.0.0.1:5001", "10.0.0.2:5002"}

\* lines 143 and 201-237: one whole call selectBackend(f)
SelectCall(f) ==
    /\ Len(selLog) < MaxSelections
    /\ roundRobinIdx < MaxSelections
    /\ CanRLock(backendsMu)
    /\ \E b \in SelectBackendResults(strategy, backends, roundRobinIdx) :
          /\ b # NoBackend
          /\ selLog' = Append(selLog, <<f, b>>)
    /\ roundRobinIdx' = IF strategy = RoundRobin THEN roundRobinIdx + 1
                        ELSE roundRobinIdx
    /\ UNCHANGED <<strategy, backends, clients, clientsMu, backendsMu, sess,
                   probing, node, nodeChanges, now>>
    /\ UNCHANGED <<nodeVars, fwdVars, sweep, client, connVars>>

\* lines 514 and 520: a probe round flips the flag of backend b
HealthFlip(b) ==
    /\ backends' = [backends EXCEPT ![b].IsHealthy = ~@]
    /\ selLog' = <<>>
    /\ UNCHANGED <<strategy, roundRobinIdx, clients, clientsMu, backendsMu,
                   sess, probing, node, nodeChanges, now>>
    /\ UNCHANGED <<nodeVars, fwdVars, sweep, client, connVars>>

NextSel ==
    \/ \E f \in Fingerprints : SelectCall(f)
    \/ \E b \in Backends : HealthFlip(b)

SpecSel == InitLB /\ [][NextSel]_vars

SpecKill == InitLB /\ [][NextKill]_vars

\* the backends run on their own: the proxy is as configured and idle
InitServers == InitLB /\ strategy = RoundRobin

SpecNode == InitServers /\ [][NextNode]_vars

SpecFwd == InitServers /\ [][NextFwd]_vars

\* time.Now(): the instants the clock is read at, in seconds
Times == {0, 30, 31, 331}

Advance(t) ==
    /\ t > now
    /\ now' = t
    /\ sweep' = NoSweep
    /\ UNCHANGED <<client, connVars>>
    /\ UNCHANGED <<strategy, backends, roundRobinIdx, clients, clientsMu,
                   backendsMu, sess, probing, node, nodeChanges>>
    /\ UNCHANGED <<selLog, nodeVars, fwdVars>>

(***************************************************************************)
(* AddBackend called again while the proxy serves sessions.  The model     *)
(* keeps the descriptors that are in lb.backends; a call is left out while *)
(* a handler is about to write through the pointer it took from the map    *)
(* (between its selection and its registration, and inside the deferred    *)
(* decrement), where the write would go to the replaced descriptor.        *)
(***************************************************************************)
HoldsDescriptor(s) ==
    sess[s].pc \in {"rr_write", "dial", "register", "reg_write",
                    "df_read", "df_write"}

\* loadbalancer.go lines 74-87: the entry of id b is set to a new descriptor
AddBackend(b) ==
    /\ CanLock(backendsMu)
    /\ \A s \in Sessions : ~HoldsDescriptor(s)
    /\ backends' = [backends EXCEPT ![b] = [NewBackend EXCEPT !.LastCheck = now]]
    /\ UNCHANGED <<strategy, roundRobinIdx, clients, clientsMu, backendsMu,
                   sess, probing, node, nodeChanges, now>>
    /\ UNCHANGED <<selLog, nodeVars, fwdVars, sweep, client, connVars>>

NextAdd ==
    \/ \E s \in Sessions : SessionStep(s)
    \/ \E b \in Backends : AddBackend(b)

SpecAdd == InitLB /\ [][NextAdd]_vars

(***************************************************************************)
(* The registry of one backend process, its operations called in any order *)
(* while the clock advances.                                               *)
(***************************************************************************)
RegProc == "node1"

Statuses == {"online", "offline", "busy"}

regUnchanged ==
    /\ UNCHANGED <<procUp, localClients, legs, cmd, stops>>
    /\ UNCHANGED <<strategy, backends, roundRobinIdx, clients, clientsMu,
                   backendsMu, sess, probing, node, nodeChanges>>
    /\ UNCHANGED <<selLog, fwdVars, client, connVars>>

\* what a mutating operation leaves behind: the map, written to the file
Saved(reg) ==
    /\ greg' = [greg EXCEPT ![RegProc] = reg]
    /\ file' = saveToFileUnsafe(reg)

\* lines 244-261 and 94-103
RegRegister(c) ==
    /\ Saved(RegisterClient(greg[RegProc], c, RegProc))
    /\ UNCHANGED now
    /\ regUnchanged
    /\ sweep' = NoSweep

\* lines 263-267 and 106-115
RegUnregister(c) ==
    /\ greg[RegProc][c].present
    /\ Saved(UnregisterClient(greg[RegProc], c))
    /\ UNCHANGED now
    /\ regUnchanged
    /\ sweep' = NoSweep

\* lines 269-273 and 118-127
RegUpdateActivity(c) ==
    /\ greg[RegProc][c].present
    /\ Saved(UpdateClientActivity(greg[RegProc], c))
    /\ UNCHANGED now
    /\ regUnchanged
    /\ sweep' = NoSweep

\* lines 275-279 and 130-139
RegSetStatus(c, status) ==
    /\ greg[RegProc][c].present
    /\ Saved(SetClientStatus(greg[RegProc], c, status))
    /\ UNCHANGED now
    /\ regUnchanged
    /\ sweep' = NoSweep

\* lines 288-293 and 166-185: the flags are refreshed in memory only
RegGet(c) ==
    /\ greg' = [greg EXCEPT ![RegProc] = GetClient(greg[RegProc], c)]
    /\ UNCHANGED <<file, now>>
    /\ regUnchanged
    /\ sweep' = NoSweep

\* lines 281-286 and 142-163
RegGetAll ==
    /\ greg' = [greg EXCEPT ![RegProc] = GetAllClients(greg[RegProc])]
    /\ UNCHANGED <<file, now>>
    /\ regUnchanged
    /\ sweep' = NoSweep

\* lines 213-229: the file is written when a record was deleted
RegSweep ==
    LET reg == CleanupOfflineClients(greg[RegProc])
        cleaned == {c \in ClientIds : greg[RegProc][c].present
                                       /\ ~reg[c].present}
    IN  /\ greg' = [greg EXCEPT ![RegProc] = reg]
        /\ file' = IF cleaned # {} THEN saveToFileUnsafe(reg) ELSE file
        /\ sweep' = [done |-> TRUE, cleaned |-> cleaned]
        /\ UNCHANGED now
        /\ regUnchanged

NextReg ==
    \/ \E c \in ClientIds : RegRegister(c)
    \/ \E c \in ClientIds : RegUnregister(c)
    \/ \E c \in ClientIds : RegUpdateActivity(c)
    \/ \E c \in ClientIds, st \in Statuses : RegSetStatus(c, st)
    \/ \E c \in ClientIds : RegGet(c)
    \/ RegGetAll
    \/ RegSweep
    \/ \E t \in Times : Advance(t)

\* main.go line 22: the process has called InitGlobalRegistry and found
\* no file
InitReg ==
    /\ InitProxy
    /\ strategy = RoundRobin
    /\ InitFwd
    /\ procUp = [p \in Backends |-> p = RegProc]
    /\ file = saveToFileUnsafe(EmptyRegistry)
    /\ greg = [p \in Backends |-> EmptyRegistry]
    /\ localClients = [p \in Backends |-> [c \in ClientIds |-> NoLeg]]
    /\ legs = [l \in Legs |-> IdleLeg]
    /\ cmd = NoCommand
    /\ stops = 0
    /\ sweep = NoSweep
    /\ client = NewClient
    /\ InitConn

SpecReg == InitReg /\ [][NextReg]_vars

(***************************************************************************)
(* The prober next to one session and a clock that reaches the first tick  *)
(* of the ticker.  The proxy may be started while backends are not         *)
(* running.  The ticker fires for ever and the      *)
(* probe of a backend returns (http.Client.Timeout), a task that keeps     *)
(* asking for a mutex gets it: the prober and the session are scheduled    *)
(* fairly; what the backends and the clock do is up to the environment.    *)
(***************************************************************************)
InitHealth ==
    /\ strategy = RoundRobin
    /\ backends = [b \in Backends |-> NewBackend]
    /\ roundRobinIdx = 0
    /\ clients = [c \in ClientIds |-> NoSession]
    /\ clientsMu = Free
    /\ backendsMu = Unlocked
    /\ sess = [s \in Sessions |-> IdleSession]
    /\ probing = {}
    /\ node \in [Backends -> {"ok", "down"}]
    /\ nodeChanges = 0
    /\ now = 0
    /\ selLog = <<>>
    /\ InitNodes
    /\ InitFwd
    /\ sweep = NoSweep
    /\ client = NewClient
    /\ InitConn

\* of the session, the steps that read or write the health flags: the
\* selection and the dial
NextHealth ==
    \/ Accept(1, "c1")
    \/ SelectBackend(1)
    \/ SelectAdvance(1)
    \/ Dial(1)
    \/ HealthRoundStart
    \/ \E b \in Backends : ProbeBackend(b)
    \/ \E b \in Backends, c \in NodeConditions : NodeChange(b, c)
    \/ Advance(TickerPeriod)

FairSpecHealth ==
    /\ InitHealth
    /\ [][NextHealth]_vars
    /\ SF_vars(HealthRoundStart)
    /\ WF_vars(\E b \in Backends : ProbeBackend(b))
    /\ SF_vars(SelectBackend(1) \/ SelectAdvance(1) \/ Dial(1))

(***************************************************************************)
(* The teardown of a session.  The peers send a well-formed object or a    *)
(* frame that does not decode.  The Go scheduler runs every task that can  *)
(* take a step; whether a peer sends a frame or goes away is up to the     *)
(* peer, so these steps carry no fairness.                                 *)
(***************************************************************************)
TeardownFrames ==
    {[type |-> "text", json |-> "object", text |-> <<<<"id", <<0, 1>>>>>>],
     [type |-> "text", json |-> "malformed", text |-> <<>>]}

NextTeardown ==
    \/ \E d \in Dirs : FwdSelect(d)
    \/ \E d \in Dirs, f \in TeardownFrames : FwdRead(d, f)
    \/ \E d \in Dirs : FwdReadFails(d)
    \/ \E d \in Dirs : FwdWrite(d)
    \/ FwdCloseDone
    \/ FwdCloseLegs
    \/ \E s \in Sides : FwdPeerGone(s)

FairSpecTeardown ==
    /\ InitServers
    /\ [][NextTeardown]_vars
    /\ \A d \in Dirs : WF_vars(FwdSelect(d))
    /\ \A d \in Dirs : WF_vars(FwdReadFails(d))
    /\ \A d \in Dirs : WF_vars(FwdWrite(d))
    /\ WF_vars(FwdCloseDone)
    /\ WF_vars(FwdCloseLegs)

\* lines 355-375 and 186-194: the legs closed, cleanupConnection goes on to
\* remove the client record and to decrement the count, forwardMessages
\* returns and the deferred function of handleWebSocket runs: the session
\* is complete.  Nothing on this path waits for a forwarder.
FwdSessionEnds ==
    /\ fwdPc["main"] = "closed"
    /\ fwdPc' = [fwdPc EXCEPT !["main"] = "complete"]
    /\ UNCHANGED <<fwdMsg, fwdRead, fwdWritten, fwdDone, fwdConn>>
    /\ fwdUnchanged

NextSplice ==
    \/ NextTeardown
    \/ FwdSessionEnds

\* forwardMessages and the end of the handler around it
SpecSplice == InitServers /\ [][NextSplice]_vars

(***************************************************************************)
(* The handler of the proxy around forwardMessages (loadbalancer.go lines  *)
(* 114-197), for one upgrade request: fwdPc["main"] follows the handler    *)
(* from the read of the registration message on, fwdRead["c2s"] holds the  *)
(* frames read from the client and fwdWritten["c2s"] the frames written to *)
(* the backend leg, by the handler or by the forwarder.                    *)
(***************************************************************************)
\* the first frame of a client: its registration message, which the member
\* it carries tells from the frames the client sends afterwards, or a frame
\* that does not decode
RegistrationFrames ==
    {[type |-> "text", json |-> "object", text |-> <<<<"type", <<0, 1>>>>>>],
     [type |-> "text", json |-> "malformed", text |-> <<>>]}

\* lines 122-128: ReadJSON of the registration message; a frame that does
\* not decode ends the handler
ReadRegistration(f) ==
    /\ fwdPc["main"] = "reg_read"
    /\ fwdConn["client"] = "open"
    /\ fwdRead' = [fwdRead EXCEPT !["c2s"] = Append(@, f)]
    /\ IF Decodes(f)
       THEN /\ fwdMsg' = [fwdMsg EXCEPT !["main"] = Decode(f)]
            /\ fwdPc' = [fwdPc EXCEPT !["main"] = "connect"]
       ELSE /\ fwdMsg' = fwdMsg
            /\ fwdPc' = [fwdPc EXCEPT !["main"] = "returned"]
    /\ UNCHANGED <<fwdWritten, fwdDone, fwdConn>>
    /\ fwdUnchanged

\* lines 124-128: the client has gone before it registered
ReadRegistrationFails ==
    /\ fwdPc["main"] = "reg_read"
    /\ fwdConn["client"] # "open"
    /\ fwdPc' = [fwdPc EXCEPT !["main"] = "returned"]
    /\ UNCHANGED <<fwdMsg, fwdRead, fwdWritten, fwdDone, fwdConn>>
    /\ fwdUnchanged

\* lines 143-161: a backend is selected and dialled: the backend leg is open
ConnectBackend ==
    /\ fwdPc["main"] = "connect"
    /\ fwdConn' = [fwdConn EXCEPT !["server"] = "open"]
    /\ fwdPc' = [fwdPc EXCEPT !["main"] = "reg_write"]
    /\ UNCHANGED <<fwdMsg, fwdRead, fwdWritten, fwdDone>>
    /\ fwdUnchanged

\* lines 144-150 and 154-160: no backend is healthy or the dial fails: the
\* handler writes an error to the client and returns
ConnectFails ==
    /\ fwdPc["main"] = "connect"
    /\ fwdPc' = [fwdPc EXCEPT !["main"] = "returned"]
    /\ UNCHANGED <<fwdMsg, fwdRead, fwdWritten, fwdDone, fwdConn>>
    /\ fwdUnchanged

\* a handler that goes to forwardMessages without writing the registration
ForwardRegistration_Skip ==
    /\ fwdPc["main"] = "reg_write"
    /\ fwdPc' = [fwdPc EXCEPT !["main"] = "start"]
    /\ UNCHANGED <<fwdMsg, fwdRead, fwdWritten, fwdDone, fwdConn>>
    /\ fwdUnchanged

\* line 183: serverConn.WriteJSON(regMsg); the result is not looked at
ForwardRegistration ==
    /\ fwdPc["main"] = "reg_write"
    /\ fwdWritten' = IF fwdConn["server"] = "open"
                     THEN [fwdWritten EXCEPT
                              !["c2s"] = Append(@, Encode(fwdMsg["main"]))]
                     ELSE fwdWritten
    /\ fwdPc' = [fwdPc EXCEPT !["main"] = "start"]
    /\ UNCHANGED <<fwdMsg, fwdRead, fwdDone, fwdConn>>
    /\ fwdUnchanged

\* lines 197 and 268-324: forwardMessages starts the two forwarders and
\* waits for the first error
StartForwarding ==
    /\ fwdPc["main"] = "start"
    /\ fwdPc' = [t \in DOMAIN fwdPc |->
                    IF t = "main" THEN "wait" ELSE "select"]
    /\ UNCHANGED <<fwdMsg, fwdRead, fwdWritten, fwdDone, fwdConn>>
    /\ fwdUnchanged

NextHandler ==
    \/ \E f \in RegistrationFrames : ReadRegistration(f)
    \/ ReadRegistrationFails
    \/ ConnectBackend
    \/ ConnectFails
    \/ ForwardRegistration
    \/ StartForwarding
    \/ NextTeardown

\* lines 115-120: the upgrade has succeeded; no backend leg yet, no
\* forwarder yet
InitHandler ==
    /\ fwdPc = [t \in Dirs \cup {"main"} |->
                   IF t = "main" THEN "reg_read" ELSE "unstarted"]
    /\ fwdMsg = [t \in Dirs \cup {"main"} |-> NoMsg]
    /\ fwdRead = [d \in Dirs |-> <<>>]
    /\ fwdWritten = [d \in Dirs |-> <<>>]
    /\ fwdDone = FALSE
    /\ fwdConn = [s \in Sides |-> IF s = "client" THEN "open" ELSE "none"]
    /\ InitProxy /\ strategy = RoundRobin
    /\ InitNodes
    /\ sweep = NoSweep
    /\ client = NewClient
    /\ InitConn

SpecHandler == InitHandler /\ [][NextHandler]_vars

(***************************************************************************)
(* A running backend process and its registry.  main calls                 *)
(* InitGlobalRegistry (main.go line 22) and starts the server; neither     *)
(* they nor any other code calls StartCleanupTask (global_clients.go       *)
(* 232-241), so no task of the process ever calls CleanupOfflineClients:   *)
(* the registry is changed by the handlers of the process only.  Time      *)
(* passes.                                                                 *)
(***************************************************************************)
NextRunning ==
    \/ \E c \in ClientIds : RegRegister(c)
    \/ \E c \in ClientIds : RegUnregister(c)
    \/ \E c \in ClientIds : RegUpdateActivity(c)
    \/ \E c \in ClientIds, st \in Statuses : RegSetStatus(c, st)
    \/ \E c \in ClientIds : RegGet(c)
    \/ RegGetAll
    \/ \E t \in Times : Advance(t)

FairSpecRunning ==
    /\ InitReg
    /\ [][NextRunning]_vars
    /\ WF_vars(\E t \in Times : Advance(t))

(***************************************************************************)
(* Server.handleWebSocket (server.go lines 80-172) for one connection, the *)
(* command dispatch that writes to the same connection (lines 423-449),    *)
(* and on the proxy the two tasks that write to the client leg of a splice *)
(* (loadbalancer.go lines 317 and 419).  Strings are sequences of          *)
(* characters, so that their length and their tail can be taken.           *)
(***************************************************************************)
connUnchanged == UNCHANGED <<lbVars, selLog, nodeVars, fwdVars, sweep, client>>

\* bound: envelopes the message loop receives
MaxEnvelopes == 2

\* the client_id of a registration: missing (or not a string), two
\* characters, five characters
IdTexts == {<<>>, <<"a", "b">>, <<"u", "s", "e", "r", "7">>}

\* the client_name of a registration: missing, or given
NameTexts == {<<>>, <<"n", "1">>}

RegEnvelopes == [client_id : IdTexts, client_name : NameTexts]

\* lines 98-100: "client_" followed by the clock in base 36
GeneratedId == <<"c", "l", "i", "e", "n", "t", "_", "k", "2">>

\* line 102: the prefix of a synthesized name (three Han characters and an
\* underscore in the source, written here in ASCII)
NamePrefix == <<"kehuduan_">>

\* the slice expression clientID[len(clientID)-4:] is defined for an id of
\* four bytes or more; for a shorter one the low bound is negative and the
\* expression panics
SliceInRange(id) == Len(id) >= 4

Tail4(id) == SubSeq(id, Len(id) - 3, Len(id))

\* lines 88-114: the registration message is read, the id and the name get
\* their defaults, the record is stored in s.clients and in the registry
ConnRegister(e) ==
    /\ conn.pc = "reg_read"
    /\ LET id == IF e.client_id = <<>> THEN GeneratedId ELSE e.client_id
       IN  IF e.client_name = <<>> /\ ~SliceInRange(id)
           THEN conn' = [conn EXCEPT !.pc = "panicked", !.id = id]
           ELSE conn' = [conn EXCEPT
                            !.pc = "loop",
                            !.id = id,
                            !.name = IF e.client_name = <<>>
                                     THEN NamePrefix \o Tail4(id)
                                     ELSE e.client_name,
                            !.registered = TRUE]
    /\ UNCHANGED writers
    /\ connUnchanged

\* the envelopes a client sends after its registration: with or without a
\* string member "type", with or without a member "method"
Envelopes ==
    [type : {"", "command_response", "request"}, method : BOOLEAN,
     id : {"r1", "r2"}]

\* lines 143-170: a response is written for an envelope whose "type" is a
\* string other than "command_response" and which has a "method"
Answered(e) == e.type \notin {"", "command_response"} /\ e.method

\* lines 134-170: ReadJSON returns an envelope; the loop handles it
ConnRead(e) ==
    /\ conn.pc = "loop"
    /\ Len(conn.received) < MaxEnvelopes
    /\ conn' = [conn EXCEPT !.received = Append(@, e),
                            !.msg = IF Answered(e) THEN e.id ELSE <<>>,
                            !.pc = IF Answered(e) THEN "respond" ELSE "loop"]
    /\ UNCHANGED writers
    /\ connUnchanged

\* lines 155-156: handleMessage has built the response (its ID is msg.ID)
\* and conn.WriteJSON(response) starts
ConnRespondBegin ==
    /\ conn.pc = "respond"
    /\ conn' = [conn EXCEPT !.pc = "responding"]
    /\ writers' = [writers EXCEPT !["backendConn"] = @ \cup {"loop"}]
    /\ connUnchanged

\* line 156: WriteJSON returns; the loop reads again
ConnRespondEnd ==
    /\ conn.pc = "responding"
    /\ conn' = [conn EXCEPT !.pc = "loop", !.msg = <<>>,
                            !.responses = Append(@, conn.msg)]
    /\ writers' = [writers EXCEPT !["backendConn"] = @ \ {"loop"}]
    /\ connUnchanged

\* lines 136-140 and 117-127: the read fails, the loop ends and the deferred
\* function removes the records
ConnReadFails ==
    /\ conn.pc = "loop"
    /\ conn' = [conn EXCEPT !.pc = "closed", !.registered = FALSE]
    /\ UNCHANGED writers
    /\ connUnchanged

\* lines 424-441: sendCommandToLocalClient finds the connection in s.clients,
\* releases the read lock and starts client.Connection.WriteJSON(cmdMsg)
CommandWriteBegin ==
    /\ conn.registered
    /\ "command" \notin writers["backendConn"]
    /\ writers' = [writers EXCEPT !["backendConn"] = @ \cup {"command"}]
    /\ UNCHANGED conn
    /\ connUnchanged

\* lines 441-448: the write returns
CommandWriteEnd ==
    /\ "command" \in writers["backendConn"]
    /\ writers' = [writers EXCEPT !["backendConn"] = @ \ {"command"}]
    /\ UNCHANGED conn
    /\ connUnchanged

\* loadbalancer.go line 317: the backend-to-client forwarder of a splice
\* starts client.ClientConn.WriteJSON(msg)
ForwarderWriteBegin ==
    /\ "forwarder" \notin writers["clientConn"]
    /\ writers' = [writers EXCEPT !["clientConn"] = @ \cup {"forwarder"}]
    /\ UNCHANGED conn
    /\ connUnchanged

ForwarderWriteEnd ==
    /\ "forwarder" \in writers["clientConn"]
    /\ writers' = [writers EXCEPT !["clientConn"] = @ \ {"forwarder"}]
    /\ UNCHANGED conn
    /\ connUnchanged

\* loadbalancer.go lines 408-419: handleQuery finds the splice in lb.clients,
\* releases the read lock and starts client.ClientConn.WriteJSON(queryMsg)
QueryWriteBegin ==
    /\ "query" \notin writers["clientConn"]
    /\ writers' = [writers EXCEPT !["clientConn"] = @ \cup {"query"}]
    /\ UNCHANGED conn
    /\ connUnchanged

\* loadbalancer.go lines 420-423: the write returns
QueryWriteEnd ==
    /\ "query" \in writers["clientConn"]
    /\ writers' = [writers EXCEPT !["clientConn"] = @ \ {"query"}]
    /\ UNCHANGED conn
    /\ connUnchanged

NextConn ==
    \/ \E e \in RegEnvelopes : ConnRegister(e)
    \/ \E e \in Envelopes : ConnRead(e)
    \/ ConnRespondBegin
    \/ ConnRespondEnd
    \/ ConnReadFails
    \/ CommandWriteBegin
    \/ CommandWriteEnd
    \/ ForwarderWriteBegin
    \/ ForwarderWriteEnd
    \/ QueryWriteBegin
    \/ QueryWriteEnd

SpecConn == InitServers /\ [][NextConn]_vars

FairSpecKill ==
    /\ SpecKill
    /\ \A s \in Sessions : SF_vars(SessionProgress(s))
    /\ SF_vars(HealthRoundStart)
    /\ WF_vars(\E b \in Backends : ProbeBackend(b))

(***************************************************************************)
(* The reconnect loop of the client program (client.go lines 187-250).     *)
(***************************************************************************)
cliUnchanged ==
    UNCHANGED <<lbVars, selLog, nodeVars, fwdVars, sweep, connVars>>

Min(a, b) == IF a < b THEN a ELSE b

\* README.md lines 9-10: the exponential backoff the documentation names, a
\* delay that doubles with every consecutive failure
Backoff_Doubling(retryCount) == Min(baseDelay * 2 ^ (retryCount - 1), maxDelay)

\* lines 205-208: delay := retryCount * baseDelay, at most maxDelay
Backoff(retryCount) == Min(retryCount * baseDelay, maxDelay)

\* lines 193-198: the top of the loop, select on ctx.Done() with a default
CliLoop ==
    /\ client.pc = "loop"
    /\ client' = [client EXCEPT !.pc = IF client.ctxDone THEN "exited"
                                         ELSE "connect"]
    /\ cliUnchanged

\* lines 201-209: ConnectToLoadBalancer fails: the count grows and the delay
\* is computed from it
CliConnectFails ==
    /\ client.pc = "connect"
    /\ client.retryCount < MaxRetries
    /\ client' = [client EXCEPT !.pc = "wait",
                                !.retryCount = client.retryCount + 1,
                                !.delay = Backoff(client.retryCount + 1)]
    /\ cliUnchanged

\* lines 215-220: time.After(delay) fires: continue
CliRetry ==
    /\ client.pc = "wait"
    /\ client' = [client EXCEPT !.pc = "loop"]
    /\ cliUnchanged

\* lines 215-217: ctx is cancelled during the wait: return
CliWaitCancelled ==
    /\ client.pc = "wait"
    /\ client.ctxDone
    /\ client' = [client EXCEPT !.pc = "exited"]
    /\ cliUnchanged

\* lines 201, 223-235: ConnectToLoadBalancer succeeds: retryCount = 0 and the
\* message handler is started
CliConnects ==
    /\ client.pc = "connect"
    /\ client.connects < MaxConnects
    /\ client' = [client EXCEPT !.pc = "connected",
                                !.retryCount = 0,
                                !.connects = client.connects + 1]
    /\ cliUnchanged

\* lines 242-248: the handler reports the end of the connection: Close, one
\* second of sleep, and the loop again
CliDisconnected ==
    /\ client.pc = "connected"
    /\ client' = [client EXCEPT !.pc = "loop"]
    /\ cliUnchanged

\* lines 239-241: ctx is cancelled while connected: Close and return
CliConnectedCancelled ==
    /\ client.pc = "connected"
    /\ client.ctxDone
    /\ client' = [client EXCEPT !.pc = "exited"]
    /\ cliUnchanged

\* lines 175-178: StartWithAutoReconnect receives a signal and cancels ctx
CliSignal ==
    /\ ~client.ctxDone
    /\ client' = [client EXCEPT !.ctxDone = TRUE]
    /\ cliUnchanged

NextClient ==
    \/ CliLoop
    \/ CliConnectFails
    \/ CliRetry
    \/ CliWaitCancelled
    \/ CliConnects
    \/ CliDisconnected
    \/ CliConnectedCancelled
    \/ CliSignal

SpecClient == InitServers /\ [][NextClient]_vars

(***************************************************************************)
(* Claims about the proxy.                                                 *)
(***************************************************************************)
\* the sessions whose splice is running on backend b
ActiveSplices(b) ==
    {s \in Sessions : sess[s].pc = "forward" /\ sess[s].backend = b}

\* a session in the middle of its registration or of its teardown
InTransition(s) ==
    sess[s].pc \in {"reg_write", "cleanup", "cl_lock", "cl_read", "cl_write",
                    "defer", "df_read", "df_write"}

\* C1: for every backend b, b.Connections equals the number of active
\* splices whose chosen backend is b (read in the states where no session is
\* in the middle of registering or tearing down).
C1_ConnectionCount ==
    (\A s \in Sessions : ~InTransition(s)) =>
        \A b \in Backends :
            backends[b].Connections = Cardinality(ActiveSplices(b))

\* a session that no longer has, or never had, a splice
NoSplice(s) == sess[s].pc \in {"idle", "select", "rr_write", "dial", "closed"}

AllDown == \A b \in Backends : node[b] = "down"

\* C2: after every backend has died, eventually every splice has ended,
\* the client table is empty and every Connections counter is zero.  Once
\* every backend is dead and every handler task has returned, no step
\* changes the table or a counter any more, so these are the states that
\* decide the "eventually": there the table is empty and the counters zero.
C2_TeardownAccounting ==
    (AllDown /\ \A s \in Sessions : sess[s].pc = "closed") =>
        /\ \A c \in ClientIds : clients[c] = NoSession
        /\ \A b \in Backends : backends[b].Connections = 0

\* C3: at the moment a session is registered on a backend (record stored
\* and Connections incremented), that backend is flagged healthy.
C3_RegisteredOnHealthy ==
    [][\A s \in Sessions :
          (sess[s].pc = "reg_write" /\ sess'[s].pc = "forward")
              => backends'[sess[s].backend].IsHealthy]_vars

\* C3 amended: a backend returned by selectBackend was flagged healthy when
\* the selection read the flags.
C3_SelectedWasHealthy ==
    [][\A s \in Sessions :
          (sess[s].pc = "select" /\ sess'[s].backend # NoBackend)
              => backends[sess'[s].backend].IsHealthy]_vars

\* C3 witness: a session holds the backend the selector returned, flagged
\* healthy, while another backend is flagged unhealthy.
C3_Witness ==
    \E s \in Sessions :
        /\ sess[s].pc \in {"rr_write", "dial"}
        /\ backends[sess[s].backend].IsHealthy
        /\ \E b \in Backends : ~backends[b].IsHealthy

\* C4: two selections for the same fingerprint with no health change in
\* between return the same backend, under every strategy.
C4_SessionAffinity ==
    \A i, j \in 1..Len(selLog) :
        selLog[i][1] = selLog[j][1] => selLog[i][2] = selLog[j][2]

\* C5: a probe marks the backend healthy if and only if its health
\* endpoint answered the probe with status 200.
C5_ProbeCriterion ==
    [][\A b \in Backends :
          (b \in probing /\ b \notin probing')
              => (backends'[b].IsHealthy <=> node[b] = "ok")]_vars

\* the backends in identifier order
BackendsById == <<"node1", "node2", "node3">>

\* C6: under round_robin with three healthy backends and no health change,
\* the i-th client since the start of the proxy is placed on backend
\* ((i-1) mod 3) in identifier order.
C6_RoundRobinPlacement ==
    (/\ strategy = RoundRobin
     /\ \A b \in Backends : backends[b].IsHealthy
     /\ roundRobinIdx = Len(selLog))
        => \A i \in 1..Len(selLog) :
              selLog[i][2] = BackendsById[((i - 1) % 3) + 1]


(***************************************************************************)
(* Claims about the backends and their registry.                           *)
(***************************************************************************)
\* the legs with client id c that backend p has accepted and not yet closed
OpenLegs(p, c) ==
    {l \in Legs : /\ legs[l].node = p
                  /\ legs[l].clientID = c
                  /\ legs[l].pc \in {"inserted", "loop", "leaving", "unreg"}}

\* C7: from the registration of a leg with client id c until the leg is
\* left, the registry of its backend holds a record for c; once the leg has
\* closed and the backend has no other leg of c, the record is absent or
\* offline.
C7_RegistryPresence ==
    \A l \in Legs :
        LET p == legs[l].node
            c == legs[l].clientID
        IN  /\ legs[l].pc = "loop" => greg[p][c].present
            /\ (legs[l].pc = "closed" /\ OpenLegs(p, c) = {} /\ procUp[p]) =>
                   \/ ~greg[p][c].present
                   \/ greg[p][c].Status = "offline"

\* C8: a request posted to backend B for a client whose registered leg on
\* another backend is open from before the request until after the answer
\* is answered with success, and the command is written on that leg.
C8_CrossNodeDispatch ==
    \A l \in Legs :
        (/\ cmd.pc = "done"
         /\ l \in cmd.openAtPost
         /\ legs[l].pc = "loop"
         /\ legs[l].node # cmd.entry) =>
            (cmd.success /\ legs[l].got > 0)

\* C9: the success value a backend answers for a request it forwarded is
\* the success value in the answer of the backend it forwarded to.
C9_ForwardedResultRelayed ==
    (cmd.pc = "done" /\ cmd.ownerResp # NoResp) =>
        cmd.success = cmd.ownerResp.success
(***************************************************************************)
(* Claims about the forwarders.                                            *)
(***************************************************************************)
IsPrefix(a, b) ==
    /\ Len(a) <= Len(b)
    /\ \A i \in 1..Len(a) : a[i] = b[i]

\* C10: in each direction the frames written to the opposite leg are, in
\* order and with identical content, the first frames read.
C10_VerbatimInOrder ==
    \A d \in Dirs : IsPrefix(fwdWritten[d], fwdRead[d])

\* a forwarder task has terminated
Exited(d) == fwdPc[d] \in {"failed", "returned"}

SessionTornDown ==
    /\ \A s \in Sides : fwdConn[s] = "closed"
    /\ \A d \in Dirs : Exited(d)

\* C11: once a forwarder of the session has hit a read or write error,
\* eventually both legs are closed and both forwarder tasks have
\* terminated.
C11_TeardownOnFirstError ==
    (\E d \in Dirs : fwdPc[d] = "failed") ~> SessionTornDown

\* C11: the session is torn down after the backend-to-client forwarder
\* failed first while the other forwarder had already forwarded a frame.
C11_Witness ==
    /\ SessionTornDown
    /\ fwdPc["c2s"] = "failed"
    /\ fwdPc["s2c"] = "failed"
    /\ Len(fwdWritten["c2s"]) > 0

(***************************************************************************)
(* Claims about the prober.                                                *)
(***************************************************************************)
\* a step of the round that probes backend b
Probed(b) == b \in probing /\ b \notin probing'

\* C12: a backend that does not answer its health endpoint gets marked
\* unhealthy and one that answers 200 gets marked healthy (eligible for
\* selection) by the rounds that follow; a round probes every backend and
\* each probe sets the flag by the answer and the last-check time to the
\* time of the probe.
C12_HealthTracking ==
    /\ \A b \in Backends :
          (node[b] = "down") ~> (~backends[b].IsHealthy \/ node[b] # "down")
    /\ \A b \in Backends :
          (node[b] = "ok") ~> (backends[b].IsHealthy \/ node[b] # "ok")
    /\ [][/\ (probing = {} /\ probing' # {}) => probing' = Backends
          /\ \A b \in Backends :
                Probed(b) => /\ backends'[b].LastCheck = now
                             /\ node[b] = "down" => ~backends'[b].IsHealthy
                             /\ node[b] = "ok" => backends'[b].IsHealthy]_vars

\* C12: after a round at a later time, a backend that was flagged
\* unhealthy and has come back is healthy again, in the list the selector
\* takes its pick from, next to a backend that is down and flagged.
C12_Witness ==
    /\ probing = {}
    /\ nodeChanges > 0
    /\ \E b \in Backends :
          /\ node[b] = "ok"
          /\ backends[b].IsHealthy
          /\ backends[b].LastCheck > 0
          /\ \E order \in MapOrders(Backends) :
                \E i \in 1..Len(healthyBackends(backends, order)) :
                    healthyBackends(backends, order)[i] = b
    /\ \E b \in Backends :
          /\ node[b] = "down"
          /\ ~backends[b].IsHealthy
          /\ backends[b].LastCheck > 0

C14_AddIdempotent ==
    [][\A b \in Backends : AddBackend(b) => backends'[b] = backends[b]]_vars

\* the age of a record in seconds
Age(rec) == now - rec.LastSeen

\* C15: right after a sweep GetAllClients holds no record that is older
\* than five minutes, and the sweep has left every record that is not
\* older as it was.
C15_SweepResult ==
    /\ [](sweep.done =>
            \A c \in ClientIds :
                LET rec == GetAllClients(greg[RegProc])[c]
                IN  rec.present => Age(rec) <= 5 * 60)
    /\ [][sweep'.done =>
            \A c \in ClientIds :
                (greg[RegProc][c].present /\ Age(greg[RegProc][c]) <= 5 * 60)
                    => greg'[RegProc][c] = greg[RegProc][c]]_vars

\* C15: a sweep has deleted a record and has kept another one that a read
\* reports offline.
C15_Witness ==
    /\ sweep.done
    /\ sweep.cleaned # {}
    /\ \E c \in ClientIds :
          /\ greg[RegProc][c].present
          /\ Age(greg[RegProc][c]) > OfflineAfter

(***************************************************************************)
(* Claims about the selection.                                             *)
(***************************************************************************)
SomeHealthy == \E b \in Backends : backends[b].IsHealthy

\* the step in which the handler of session s gets the result of
\* selectBackend
Selects(s) == sess[s].pc = "select" /\ sess'[s].pc # "select"

\* C16: the selector returns a backend that is healthy whenever one is,
\* and none exactly when none is; with none the request ends there: no
\* dial, no client record, no change of a connection count, and the
\* handler does nothing further.
C16_NoHealthyBackend ==
    /\ [][\A s \in Sessions :
            Selects(s) =>
                IF SomeHealthy
                THEN /\ sess'[s].backend \in Backends
                     /\ backends[sess'[s].backend].IsHealthy
                     /\ sess'[s].result # "no_backend"
                ELSE /\ sess'[s].backend = NoBackend
                     /\ sess'[s].result = "no_backend"
                     /\ sess'[s].pc = "closed"
                     /\ sess'[s].serverLeg = "none"
                     /\ backends' = backends
                     /\ clients' = clients]_vars
    /\ [][\A s \in Sessions :
            sess[s].result = "no_backend" => sess'[s] = sess[s]]_vars
    /\ [](\A s \in Sessions, c \in ClientIds :
            sess[s].result = "no_backend" => clients[c] # <<s>>)

\* C16: a request was refused for want of a healthy backend while the
\* other session had been given one.
C16_Witness ==
    \E s, t \in Sessions :
        /\ sess[s].result = "no_backend"
        /\ sess[s].pc = "closed"
        /\ sess[t].backend \in Backends
        /\ ~SomeHealthy

(***************************************************************************)
(* Claims about the accounting of the sessions.                            *)
(***************************************************************************)
\* C18: the handler of every session that is spliced increments the count of
\* its backend exactly once, before the forwarding starts, and a handler that
\* never spliced increments nothing; a handler that has returned after a
\* splice has decremented the count exactly once, whichever leg failed first.
C18_ExactlyOnce ==
    \A s \in Sessions :
        /\ sess[s].incs = (IF sess[s].pc \in {"forward"} \/ InTransition(s)
                               \/ sess[s].result = "ended"
                           THEN IF sess[s].pc = "reg_write" THEN 0 ELSE 1
                           ELSE 0)
        /\ (sess[s].pc = "closed" /\ sess[s].result = "ended")
               => sess[s].decs = 1

\* C19: in every reachable state the connection count of every backend is
\* zero or more, whatever the interleaving of the registrations and of the
\* teardowns of the sessions.
C19_NeverNegative == \A b \in Backends : backends[b].Connections >= 0

\* a session between the read and the write of a Connections++ or of a
\* Connections--
AccessesCounter(s) ==
    sess[s].pc \in {"reg_write", "cl_read", "cl_write", "df_read", "df_write"}

\* C20: a handler that reads or writes the connection count of a backend
\* holds backendsMu for writing while it does, and no step changes a
\* connection count while backendsMu is not held for writing.
C20_CountersUnderRegistryMutex ==
    /\ [](\A s \in Sessions :
            AccessesCounter(s) => backendsMu.writer = Holder(s))
    /\ [][\A b \in Backends :
            backends'[b].Connections # backends[b].Connections
                => backendsMu.writer # Free]_vars

(***************************************************************************)
(* Claims about the client program.                                        *)
(***************************************************************************)
\* C17: after the n-th consecutive failed attempt the client waits a delay
\* that grows exponentially with n (baseDelay doubled n - 1 times), never
\* more than maxDelay, and the count of failures is zero again once a
\* connection attempt has succeeded.
C17_ExponentialBackoff ==
    /\ client.pc = "wait" => client.delay = Backoff_Doubling(client.retryCount)
    /\ client.delay <= maxDelay
    /\ client.pc = "connected" => client.retryCount = 0

(***************************************************************************)
(* Claims about the strategies of the selection.                           *)
(***************************************************************************)
\* the sessions whose call of selectBackend has returned a backend
Selected == {s \in Sessions : sess[s].backend # NoBackend
                                /\ sess[s].pc # "rr_write"}

\* C21: under round_robin, once N selections that found a healthy backend
\* have returned, in any interleaving, roundRobinIdx has advanced by
\* exactly N from its initial value 0, and no step decreases it.
C21_RoundRobinIndex ==
    /\ [](strategy = RoundRobin => roundRobinIdx = Cardinality(Selected))
    /\ [][roundRobinIdx' >= roundRobinIdx]_vars

\* the step in which selectBackend returns backend b to the handler of s
Returns(s, b) ==
    /\ sess[s].pc = "select"
    /\ sess'[s].pc \in {"rr_write", "dial"}
    /\ sess'[s].backend = b

\* C22: under least_conn the backend selectBackend returns is healthy and
\* its connection count is at most that of every healthy backend, with the
\* flags and counts as the selection read them.
C22_LeastConnMinimum ==
    [][\A s \in Sessions, b \in Backends :
          (strategy = LeastConn /\ Returns(s, b))
              => /\ backends[b].IsHealthy
                 /\ \A o \in Backends :
                       backends[o].IsHealthy
                           => backends[b].Connections
                                  <= backends[o].Connections]_vars

\* C22 witness: under least_conn a handler holds the backend the selection
\* returned while another healthy backend carries a larger count.
C22_Witness ==
    /\ strategy = LeastConn
    /\ \E s \in Sessions, o \in Backends :
          /\ sess[s].pc = "dial"
          /\ backends[sess[s].backend].IsHealthy
          /\ backends[o].IsHealthy
          /\ backends[o].Connections > backends[sess[s].backend].Connections

\* C23: under least_conn and under ip_hash, two selections with the same
\* fingerprint, made while no health flag and no connection count changes,
\* return the same backend; under least_conn the backend returned is the
\* first one in identifier order among the healthy backends with the
\* smallest count.
C23_SelectionDeterminism ==
    strategy \in {LeastConn, IPHash} =>
        /\ \A i, j \in 1..Len(selLog) :
              selLog[i][1] = selLog[j][1] => selLog[i][2] = selLog[j][2]
        /\ strategy = LeastConn =>
              \A i \in 1..Len(selLog) :
                  selLog[i][2] =
                      LeastConnLoop(backends,
                                    healthyBackends(backends, BackendsById),
                                    1, 0, NoBackend)

\* the values of a byte
Bytes == 0..255

\* the number of healthy backends
NumHealthy == Cardinality({b \in Backends : backends[b].IsHealthy})

\* C24: under ip_hash there is a fixed hash of the fingerprints, h, such that
\* selectBackend(f) returns the element of the healthy list at index
\* (first byte of h(f)) modulo the length of the list, and the fingerprints
\* do not all fall on the same position of the list.
C24_IpHashResult ==
    (strategy = IPHash /\ selLog # <<>> /\ NumHealthy >= 2) =>
        \E h \in [Fingerprints -> Bytes] :
            /\ \A f \in Fingerprints, order \in MapOrders(Backends) :
                  LET hb == healthyBackends(backends, order)
                  IN  PickBackend(strategy, backends, hb, roundRobinIdx)
                          = hb[(h[f] % Len(hb)) + 1]
            /\ \E f, g \in Fingerprints :
                  h[f] % NumHealthy # h[g] % NumHealthy

(***************************************************************************)
(* Claims about the fields of the backend descriptors.                     *)
(***************************************************************************)
\* a step of the prober's round on backend b
ProberStep(b) == backendsMu.writer = Prober /\ b \in probing /\ b \notin probing'

\* C25: the health flag and the last-probe time of a backend change only in
\* a step of the health prober; no step of a session's handler (selection,
\* dial, forwarding, teardown) changes them.
C25_HealthOwnedByProber ==
    [][\A b \in Backends :
          (\/ backends'[b].IsHealthy # backends[b].IsHealthy
           \/ backends'[b].LastCheck # backends[b].LastCheck)
              => ProberStep(b)]_vars

\* C26: a step of a health-check round leaves the connection count of every
\* backend, the client table and every session as they are, also when it
\* turns a backend with open sessions unhealthy.
C26_ProbeFrame ==
    [][probing' # probing =>
          /\ \A b \in Backends :
                backends'[b].Connections = backends[b].Connections
          /\ clients' = clients
          /\ sess' = sess]_vars

\* C26 witness: the round in progress has probed a backend that is down and
\* has left it unhealthy with its session still spliced, counted and in the
\* client table.
C26_Witness ==
    \E s \in Sessions :
        LET b == sess[s].backend
        IN  /\ sess[s].pc = "forward"
            /\ backendsMu.writer = Prober
            /\ b \notin probing
            /\ node[b] = "down"
            /\ ~backends[b].IsHealthy
            /\ backends[b].Connections >= 1
            /\ clients[sess[s].clientID] = <<s>>

(***************************************************************************)
(* Claims about the failures of a session.                                 *)
(***************************************************************************)
\* C27: when the dial of the chosen backend fails, the handler sends the
\* client an error and returns: the step changes no connection count and
\* creates no client record, and afterwards the handler does nothing more,
\* so it neither registers the session nor selects another backend.
C27_DialFailure ==
    /\ [][\A s \in Sessions :
            (/\ sess[s].pc = "dial"
             /\ node[sess[s].backend] = "down"
             /\ sess'[s] # sess[s])
                => /\ sess'[s].pc = "closed"
                   /\ sess'[s].result = "dial_failed"
                   /\ \A b \in Backends :
                         backends'[b].Connections = backends[b].Connections
                   /\ clients' = clients]_vars
    /\ [][\A s \in Sessions :
            sess[s].result = "dial_failed" => sess'[s] = sess[s]]_vars
    /\ [](\A s \in Sessions :
            sess[s].result = "dial_failed"
                => sess[s].incs = 0 /\ sess[s].decs = 0)

\* C27 witness: a handler has returned after a failed dial while another
\* backend was healthy.
C27_Witness ==
    \E s \in Sessions, o \in Backends :
        /\ sess[s].pc = "closed"
        /\ sess[s].result = "dial_failed"
        /\ o # sess[s].backend
        /\ backends[o].IsHealthy
        /\ node[o] = "ok"

(***************************************************************************)
(* Claims about the end of a splice.                                       *)
(***************************************************************************)
\* C28: when the session is complete (its client record removed and the
\* count of its backend decremented), both forwarder tasks have exited.
C28_OrderedTeardown ==
    fwdPc["main"] = "complete" => \A d \in Dirs : Exited(d)

\* C29: once the first forwarder error has been observed and done is
\* closed, no forwarder writes another frame to either leg.
C29_NoDeliveryAfterDone ==
    [][fwdDone => fwdWritten' = fwdWritten]_vars

\* C30: every frame a forwarder has written has the type (text or binary)
\* of the frame it was read as, and a forwarder that reads a frame, of
\* whichever type, goes on to write it instead of ending the session.
C30_FrameTypePreserved ==
    /\ [](\A d \in Dirs : \A i \in 1..Len(fwdWritten[d]) :
            fwdWritten[d][i].type = fwdRead[d][i].type)
    /\ [][\A d \in Dirs :
            Len(fwdRead'[d]) > Len(fwdRead[d]) => fwdPc'[d] = "write"]_vars

(***************************************************************************)
(* Claims about the registration on the backend leg.                       *)
(***************************************************************************)
\* C31: the first frame written to a backend leg is the registration
\* message the handler read from the client, written by the handler before
\* a forwarder runs and written once: while no forwarder has started the
\* leg holds at most that frame, and a leg that holds frames holds it
\* first.
C31_RegistrationFirst ==
    /\ [](fwdPc["c2s"] = "unstarted" =>
            /\ Len(fwdWritten["c2s"]) <= 1
            /\ Len(fwdWritten["c2s"]) = 1 => fwdPc["main"] = "start")
    /\ [](Len(fwdWritten["c2s"]) >= 1 =>
            fwdWritten["c2s"][1] = Encode(Decode(fwdRead["c2s"][1])))
    /\ [][\A i \in 1..Len(fwdWritten["c2s"]) :
            fwdWritten'["c2s"][i] = fwdWritten["c2s"][i]]_vars

\* C31 witness: the forwarder has written an application frame to the
\* backend leg after the registration.
C31_Witness ==
    /\ Len(fwdWritten["c2s"]) = 2
    /\ fwdWritten["c2s"][1] = Encode(Decode(fwdRead["c2s"][1]))
    /\ fwdWritten["c2s"][2] = Encode(Decode(fwdRead["c2s"][2]))

(***************************************************************************)
(* Claims about the reads of the registry.                                 *)
(***************************************************************************)
\* what a read reports of record r: offline and inactive exactly when the
\* record has been silent for more than OfflineAfter seconds, active
\* otherwise
ReportedRight(r) ==
    /\ (r.Status = "offline" /\ ~r.IsActive) <=> (now - r.LastSeen > OfflineAfter)
    /\ now - r.LastSeen <= OfflineAfter => r.IsActive /\ r.Status # "offline"
    /\ now - r.LastSeen > OfflineAfter => ~r.IsActive /\ r.Status = "offline"

\* C32: whatever the registry holds, GetClient and GetAllClients report a
\* record as offline and inactive exactly when its last-seen time is more
\* than 30 seconds old and as active otherwise, and the registry holds the
\* same ids, on the same nodes and with the same last-seen times, after the
\* read as before.
C32_StalenessOnRead ==
    LET reg == greg[RegProc]
        all == GetAllClients(reg)
    IN  /\ \A c \in ClientIds :
              LET got == GetClient(reg, c)
              IN  /\ reg[c].present => ReportedRight(got[c])
                  /\ \A d \in ClientIds :
                        /\ got[d].present = reg[d].present
                        /\ got[d].NodeID = reg[d].NodeID
                        /\ got[d].LastSeen = reg[d].LastSeen
                        /\ d # c => got[d] = reg[d]
        /\ \A c \in ClientIds :
              /\ reg[c].present => ReportedRight(all[c])
              /\ all[c].present = reg[c].present
              /\ all[c].NodeID = reg[c].NodeID
              /\ all[c].LastSeen = reg[c].LastSeen

\* C32 witness: a read has reported a record that was registered and then
\* silent for more than 30 seconds as offline and inactive, next to a record
\* that is fresh and reported active.
C32_Witness ==
    \E c, d \in ClientIds :
        /\ greg[RegProc][c].present
        /\ now - greg[RegProc][c].LastSeen > OfflineAfter
        /\ greg[RegProc][c].Status = "offline"
        /\ ~greg[RegProc][c].IsActive
        /\ greg[RegProc][d].present
        /\ now - greg[RegProc][d].LastSeen <= OfflineAfter
        /\ greg[RegProc][d].IsActive

\* a record of the registry that has been silent for more than five minutes
Expired(c) ==
    /\ greg[RegProc][c].present
    /\ now - greg[RegProc][c].LastSeen > SweepAfterMinutes * 60

\* C33: in a running backend every record that has become older than five
\* minutes is eventually evicted, unless it is refreshed.
C33_SweeperLiveness ==
    \A c \in ClientIds : Expired(c) ~> ~Expired(c)

(***************************************************************************)
(* Claims about a connection of a backend.                                 *)
(***************************************************************************)
\* the ids of the envelopes with a method among the first n received
RECURSIVE RequestIds(_, _)
RequestIds(received, n) ==
    IF n = 0 THEN <<>>
    ELSE IF received[n].method
         THEN Append(RequestIds(received, n - 1), received[n].id)
         ELSE RequestIds(received, n - 1)

\* C34: for every envelope with a method received on a registered
\* connection the backend writes exactly one response with the id of the
\* request: whenever the loop is back at its read, the responses written
\* are those of the requests received, one each and in their order.
C34_RequestResponse ==
    conn.pc \in {"loop", "closed"} =>
        conn.responses = RequestIds(conn.received, Len(conn.received))

\* C35: whatever registration envelope is read, the handler does not fail,
\* and a connection past its registration is registered with a non-empty id
\* and a non-empty name.
C35_RegistrationDefaults ==
    /\ conn.pc # "panicked"
    /\ conn.pc \in {"loop", "respond", "responding"} =>
           conn.registered /\ conn.id # <<>> /\ conn.name # <<>>

\* C37: at no time are two tasks inside a write to the same socket.
C37_SingleWriter == \A s \in Sockets : Cardinality(writers[s]) <= 1

\* C36: a send-command request is forwarded between backends at most once:
\* the backend that receives a forwarded request does not forward it again.
C36_OneHop == Len(cmd.stack) <= 2

\* C38: the proxy's client table holds a record for every active splice and
\* none for an ended one, also when two sessions use the same client id.
C38_ClientTableMatches ==
    /\ \A s \in Sessions :
          sess[s].pc = "forward" => clients[sess[s].clientID] # NoSession
    /\ \A c \in ClientIds :
          clients[c] # NoSession => sess[clients[c][1]].pc # "closed"

\* C39: for every open registered leg with client id c on a backend, the
\* backend's local table maps c to a socket that is open for c on that
\* backend.
C39_LocalTableLive ==
    \A l \in Legs :
        (legs[l].pc = "loop" /\ legs[l].sock = "open") =>
            LET e == localClients[legs[l].node][legs[l].clientID]
            IN  /\ e # NoLeg
                /\ legs[e[1]].sock = "open"
                /\ legs[e[1]].clientID = legs[l].clientID
                /\ legs[e[1]].node = legs[l].node

\* C40: the mutex of the backend registry is not held while the request of
\* a health probe is in flight: a session that is about to select a backend
\* can take the read lock while a health-check round is running.
C40_SelectionNotBlocked ==
    \A s \in Sessions :
        (sess[s].pc = "select" /\ probing # {}) => CanRLock(backendsMu)

====
